---------------------------- MODULE Spec2Model ----------------------------
(* Robo-Valentine: the catalog import (utils/data/import-data.ts), the /fd  *)
(* alias resolution (commands/fd.ts) and the fuzzy index cache              *)
(* (utils/discord/fuse-cache.ts), as a state machine.                       *)
(*                                                                          *)
(* A string is a sequence of one-character strings, so that trimming,       *)
(* splitting, sanitising and pattern matching are computed and not assumed. *)
EXTENDS Integers, Sequences, FiniteSets, TLC

---------------------------------------------------------------------------
(* Characters of the alphabet *)

NL == "\n"
SP == " "
Whitespace == {SP, NL, "\t"}
Lower == {"a", "b", "d", "e", "n", "t", "x", "y", "z"}
UpperOf(ch) ==
    CASE ch = "a" -> "A"
      [] ch = "b" -> "B"
      [] ch = "d" -> "D"
      [] ch = "e" -> "E"
      [] ch = "n" -> "N"
      [] ch = "t" -> "T"
      [] ch = "x" -> "X"
      [] ch = "y" -> "Y"
      [] ch = "z" -> "Z"
      [] OTHER -> ch
WordChars ==
    {"A", "B", "C", "D", "E", "M", "N", "O", "P", "Q", "R", "T", "W", "X", "Y", "Z",
     "1", "2", "_"}
        \cup Lower
\* the characters sanitise() keeps: \w \s [ ] . - , ' + ~
Whitelist == WordChars \cup Whitespace \cup {"[", "]", ".", "-", ",", "'", "+", "~"}

---------------------------------------------------------------------------
(* String primitives of JavaScript, on sequences of characters *)

Min(a, b) == IF a < b THEN a ELSE b
Max(a, b) == IF a < b THEN b ELSE a

\* s.substring(a, b): both indices clamped to [0, length], swapped when a > b
Substring(s, a, b) ==
    LET ca == Max(0, Min(a, Len(s)))
        cb == Max(0, Min(b, Len(s)))
        lo == Min(ca, cb)
        hi == Max(ca, cb)
    IN SubSeq(s, lo + 1, hi)

StartsWith(s, p) == Len(s) >= Len(p) /\ SubSeq(s, 1, Len(p)) = p
EndsWith(s, p) == Len(s) >= Len(p) /\ SubSeq(s, Len(s) - Len(p) + 1, Len(s)) = p

ToUpperCase(s) == [i \in 1..Len(s) |-> UpperOf(s[i])]

RECURSIVE TrimStart(_)
TrimStart(s) ==
    IF s # <<>> /\ Head(s) \in Whitespace THEN TrimStart(Tail(s)) ELSE s
RECURSIVE TrimEnd(_)
TrimEnd(s) ==
    IF s # <<>> /\ s[Len(s)] \in Whitespace
    THEN TrimEnd(SubSeq(s, 1, Len(s) - 1)) ELSE s
Trim(s) == TrimEnd(TrimStart(s))

\* s.split('\n'): the pieces between newlines; "" gives one empty piece
RECURSIVE SplitFrom(_, _)
SplitFrom(s, cur) ==
    IF s = <<>> THEN <<cur>>
    ELSE IF Head(s) = NL THEN <<cur>> \o SplitFrom(Tail(s), <<>>)
    ELSE SplitFrom(Tail(s), Append(cur, Head(s)))
Split(s) == SplitFrom(s, <<>>)

\* tokens joined by newlines (how a cell of the sheet is written)
RECURSIVE JoinNL(_)
JoinNL(toks) ==
    IF toks = <<>> THEN <<>>
    ELSE IF Len(toks) = 1 THEN toks[1]
    ELSE toks[1] \o <<NL>> \o JoinNL(Tail(toks))

RECURSIVE SelectSeqIdx(_, _)
SelectSeqIdx(s, keep) ==
    IF s = <<>> THEN <<>>
    ELSE (IF keep[1] THEN <<s[1]>> ELSE <<>>)
            \o SelectSeqIdx(Tail(s), Tail(keep))

Range(s) == {s[i] : i \in 1..Len(s)}
NoDuplicates(s) == \A i, j \in 1..Len(s) : s[i] = s[j] => i = j

---------------------------------------------------------------------------
(* sanitise() of the /fd command *)

TruncateLen == 100

\* s.replace(/[^\w\s[\].\-,'+~]/gi, '')
StripOutsideWhitelist(s) ==
    SelectSeqIdx(s, [i \in 1..Len(s) |-> s[i] \in Whitelist])

\* s.replace(/\s\s+/g, ' '): a run of two or more whitespace characters becomes
\* one space; a single whitespace character stays what it is
RECURSIVE CollapseRuns(_)
CollapseRuns(s) ==
    IF s = <<>> THEN <<>>
    ELSE IF Head(s) \in Whitespace /\ Len(s) >= 2 /\ s[2] \in Whitespace
         THEN <<SP>> \o CollapseRuns(TrimStart(s))
         ELSE <<Head(s)>> \o CollapseRuns(Tail(s))

Sanitise(s) == Substring(CollapseRuns(StripOutsideWhitelist(s)), 0, TruncateLen)

\* sanitise((getString("move") ?? "").toUpperCase().trim())
NormaliseMove(raw) == Sanitise(Trim(ToUpperCase(raw)))

---------------------------------------------------------------------------
(* new RegExp(pattern).test(text), for patterns made of literal characters, *)
(* "." (any character), a leading "^", a trailing "$" and "(" (which, with  *)
(* no ")" in the alphabet, is an unterminated group: a SyntaxError).        *)

RegexCompiles(p) == \A i \in 1..Len(p) : p[i] # "("

RegexBody(p) ==
    LET a == IF StartsWith(p, <<"^">>) THEN Tail(p) ELSE p
    IN IF EndsWith(a, <<"$">>) THEN SubSeq(a, 1, Len(a) - 1) ELSE a

MatchesAt(body, text, k) ==
    /\ k + Len(body) - 1 <= Len(text)
    /\ \A i \in 1..Len(body) :
          \/ body[i] = "." /\ text[k + i - 1] # NL
          \/ body[i] # "." /\ body[i] = text[k + i - 1]

RegexTest(p, text) ==
    LET body == RegexBody(p)
        anchoredStart == StartsWith(p, <<"^">>)
        anchoredEnd == EndsWith(IF anchoredStart THEN Tail(p) ELSE p, <<"$">>)
    IN \E k \in 1..(Len(text) + 1) :
          /\ MatchesAt(body, text, k)
          /\ anchoredStart => k = 1
          /\ anchoredEnd => k + Len(body) - 1 = Len(text)

---------------------------------------------------------------------------
(* Fuse.js: new Fuse(rows, {keys: ["Alias"], shouldSort: true}) and search. *)
(* The library's score is abstracted to a distance: 0 for an alias equal to *)
(* the query ignoring case, 1 for an alias of the same length that differs  *)
(* in one position; anything further is no match. Results are sorted by     *)
(* distance, then by the row's position in the index.                       *)

FuseDistance(alias, q) ==
    LET a == ToUpperCase(alias)
        b == ToUpperCase(q)
    IN IF Len(a) # Len(b) \/ Len(a) = 0 THEN 2
       ELSE Min(2, Cardinality({i \in 1..Len(a) : a[i] # b[i]}))

FuseSearch(index, q) ==
    SelectSeqIdx(index, [i \in 1..Len(index) |-> FuseDistance(index[i].Alias, q) = 0])
        \o SelectSeqIdx(index, [i \in 1..Len(index) |-> FuseDistance(index[i].Alias, q) = 1])

---------------------------------------------------------------------------
(* The tables (utils/data/database-tables.ts): each a sequence of rows in   *)
(* insertion order, with the unique index of its model.                     *)

EmptyDb ==
    [Character |-> <<>>, Macro |-> <<>>, Move |-> <<>>,
     SimpleAlias |-> <<>>, RegexAlias |-> <<>>]

CharacterKeys(rows) == [i \in 1..Len(rows) |-> rows[i].Name]
MacroKeys(rows) == [i \in 1..Len(rows) |-> rows[i].Key]
MoveKeys(rows) == [i \in 1..Len(rows) |-> <<rows[i].Character, rows[i].MoveName>>]
SimpleAliasKeys(rows) == [i \in 1..Len(rows) |-> <<rows[i].Character, rows[i].Alias>>]
RegexAliasKeys(rows) == [i \in 1..Len(rows) |-> <<rows[i].Character, rows[i].Pattern>>]

\* Model.bulkCreate(rows, {validate: true}): one INSERT statement; a row that
\* breaks the unique index makes the statement fail and insert nothing
BulkCreateCharacter(table, rows) ==
    IF NoDuplicates(CharacterKeys(table \o rows))
    THEN [ok |-> TRUE, table |-> table \o rows] ELSE [ok |-> FALSE, table |-> table]
BulkCreateMacro(table, rows) ==
    IF NoDuplicates(MacroKeys(table \o rows))
    THEN [ok |-> TRUE, table |-> table \o rows] ELSE [ok |-> FALSE, table |-> table]
BulkCreateMove(table, rows) ==
    IF NoDuplicates(MoveKeys(table \o rows))
    THEN [ok |-> TRUE, table |-> table \o rows] ELSE [ok |-> FALSE, table |-> table]
\* SimpleAlias without its unique index (database-tables.ts:194-199)
BulkCreateSimpleAliasNoIndex(table, rows) == [ok |-> TRUE, table |-> table \o rows]
BulkCreateSimpleAlias(table, rows) ==
    IF NoDuplicates(SimpleAliasKeys(table \o rows))
    THEN [ok |-> TRUE, table |-> table \o rows] ELSE [ok |-> FALSE, table |-> table]
BulkCreateRegexAlias(table, rows) ==
    IF NoDuplicates(RegexAliasKeys(table \o rows))
    THEN [ok |-> TRUE, table |-> table \o rows] ELSE [ok |-> FALSE, table |-> table]

\* Model.findAll({where: {Character: c}}): the rows of c, in rowid order
RowsOf(table, c) ==
    SelectSeqIdx(table, [i \in 1..Len(table) |-> table[i].Character = c])

---------------------------------------------------------------------------
(* The importer's validation loops (utils/data/import-data.ts)              *)

MacroPrefix == <<"M", "A", "C", "R", "O", "_">>

CheckDuplicateCharacter(data, characterName) ==
    \E i \in 1..Len(data) : data[i].Name = characterName
CheckDuplicateMacro(data, macroKey) ==
    \E i \in 1..Len(data) : data[i].Key = macroKey
CheckDuplicateMove(data, characterName, moveName) ==
    \E i \in 1..Len(data) :
        data[i].Character = characterName /\ data[i].MoveName = moveName
CheckDuplicateSimpleAlias(data, characterName, alias) ==
    \E i \in 1..Len(data) :
        data[i].Character = characterName /\ data[i].Alias = alias
\* compares the pattern alone, whatever the character
CheckDuplicateRegexAlias(data, characterName, pattern) ==
    \E i \in 1..Len(data) : data[i].Pattern = pattern

\* importCharacters, lines 96-103: the batch, or the throw
RECURSIVE CharacterLoop(_, _)
CharacterLoop(rows, data) ==
    IF rows = <<>> THEN [ok |-> TRUE, data |-> data]
    ELSE IF Len(rows[1].Name) = 0 THEN [ok |-> FALSE, data |-> <<>>]
    ELSE IF CheckDuplicateCharacter(data, rows[1].Name) THEN [ok |-> FALSE, data |-> <<>>]
    ELSE CharacterLoop(Tail(rows), Append(data, rows[1]))

\* importMacros, lines 117-124
RECURSIVE MacroLoop(_, _)
MacroLoop(rows, data) ==
    IF rows = <<>> THEN [ok |-> TRUE, data |-> data]
    ELSE IF Len(rows[1].Key) = 0 THEN [ok |-> FALSE, data |-> <<>>]
    ELSE IF CheckDuplicateMacro(data, rows[1].Key) THEN [ok |-> FALSE, data |-> <<>>]
    ELSE MacroLoop(Tail(rows), Append(data, rows[1]))

\* the tokens of a move's Aliases cell: split on newlines, each trimmed
AliasTokens(cell) == LET t == Split(cell) IN [i \in 1..Len(t) |-> Trim(t[i])]
IsRegexToken(t) == StartsWith(t, <<"/">>) /\ EndsWith(t, <<"/">>)
\* lines 168-172
SimpleAliasList(cell) ==
    LET t == AliasTokens(cell)
    IN SelectSeqIdx(t, [i \in 1..Len(t) |-> ~IsRegexToken(t[i])])
\* lines 203-208
RegexAliasList(cell) ==
    LET t == AliasTokens(cell)
        r == SelectSeqIdx(t, [i \in 1..Len(t) |-> IsRegexToken(t[i])])
    IN [i \in 1..Len(r) |-> Substring(r[i], 1, Len(r[i]) - 1)]

\* Macro.findOne({where: {Key: alias}}): the rows with that key
MacroFindOne(macroTable, key) ==
    SelectSeqIdx(macroTable, [i \in 1..Len(macroTable) |-> macroTable[i].Key = key])

Failed == [ok |-> FALSE, simple |-> <<>>]

\* lines 182-189: the values of one macro, each checked and pushed
RECURSIVE ExpandLoop(_, _, _, _)
ExpandLoop(values, c, moveName, simple) ==
    IF values = <<>> THEN [ok |-> TRUE, simple |-> simple]
    ELSE IF CheckDuplicateSimpleAlias(simple, c, values[1]) THEN Failed
    ELSE ExpandLoop(Tail(values), c, moveName,
            Append(simple, [Character |-> c, Alias |-> values[1], MoveName |-> moveName]))

\* the loop without lines 174-192: a macro token is stored as a literal alias
RECURSIVE SimpleLoopNoMacros(_, _, _, _, _)
SimpleLoopNoMacros(aliases, c, moveName, simple, macroTable) ==
    IF aliases = <<>> THEN [ok |-> TRUE, simple |-> simple]
    ELSE IF CheckDuplicateSimpleAlias(simple, c, aliases[1]) THEN Failed
    ELSE SimpleLoopNoMacros(Tail(aliases), c, moveName,
            Append(simple, [Character |-> c, Alias |-> aliases[1], MoveName |-> moveName]),
            macroTable)

\* lines 173-201: the simple and macro aliases of one move
RECURSIVE SimpleLoop(_, _, _, _, _)
SimpleLoop(aliases, c, moveName, simple, macroTable) ==
    IF aliases = <<>> THEN [ok |-> TRUE, simple |-> simple]
    ELSE IF StartsWith(aliases[1], MacroPrefix)
    THEN LET found == MacroFindOne(macroTable, aliases[1])
         IN IF found = <<>> THEN Failed
            ELSE LET e == ExpandLoop(Split(found[1].Value), c, moveName, simple)
                 IN IF ~e.ok THEN Failed
                    ELSE SimpleLoop(Tail(aliases), c, moveName, e.simple, macroTable)
    ELSE IF CheckDuplicateSimpleAlias(simple, c, aliases[1]) THEN Failed
    ELSE SimpleLoop(Tail(aliases), c, moveName,
            Append(simple, [Character |-> c, Alias |-> aliases[1], MoveName |-> moveName]),
            macroTable)

\* lines 209-217: the patterns of one move
RECURSIVE RegexLoop(_, _, _, _)
RegexLoop(patterns, c, moveName, regex) ==
    IF patterns = <<>> THEN [ok |-> TRUE, regex |-> regex]
    ELSE IF CheckDuplicateRegexAlias(regex, c, patterns[1])
    THEN [ok |-> FALSE, regex |-> <<>>]
    ELSE RegexLoop(Tail(patterns), c, moveName,
            Append(regex, [Character |-> c, Pattern |-> patterns[1], MoveName |-> moveName]))

NoBatch == [ok |-> FALSE, move |-> <<>>, simple |-> <<>>, regex |-> <<>>]

\* lines 149-218: the move rows of one character's sheet, added to the batches
RECURSIVE MoveRowLoop(_, _, _, _)
MoveRowLoop(rows, c, batch, macroTable) ==
    IF rows = <<>> THEN batch
    ELSE LET row == rows[1]
             moveName == row.MoveName
         IN IF Len(moveName) = 0 THEN NoBatch
            ELSE IF CheckDuplicateMove(batch.move, c, moveName) THEN NoBatch
            ELSE LET self == Append(batch.simple,
                                [Character |-> c, Alias |-> moveName, MoveName |-> moveName])
                     s == SimpleLoop(SimpleAliasList(row.Aliases), c, moveName, self, macroTable)
                     r == RegexLoop(RegexAliasList(row.Aliases), c, moveName, batch.regex)
                 IN IF ~s.ok \/ ~r.ok THEN NoBatch
                    ELSE MoveRowLoop(Tail(rows), c,
                            [ok |-> TRUE,
                             move |-> Append(batch.move,
                                        [Character |-> c, MoveName |-> moveName,
                                         Damage |-> row.Damage]),
                             simple |-> s.simple,
                             regex |-> r.regex],
                            macroTable)

---------------------------------------------------------------------------
(* The Google sheet: the Characters rows, the Macros rows and one sheet of  *)
(* move rows per title.                                                     *)

CA == <<"A">>
CB == <<"B">>
CC == <<"C">>
NameX == <<"X">>
NameY == <<"Y">>
Macro1 == MacroPrefix \o <<"1">>
Macro2 == MacroPrefix \o <<"2">>

CharRow(name) == [Name |-> name, PrettyName |-> name]
MoveRow(name, damage, tokens) ==
    [MoveName |-> name, Damage |-> damage, Aliases |-> JoinNL(tokens)]
Macros1 == << [Key |-> Macro1, Value |-> <<"P", NL, "Q">>] >>

\* the sheets the maintainers move between while the bot runs
LiveGood1 ==
    [Characters |-> <<CharRow(CA), CharRow(CB)>>,
     Macros |-> Macros1,
     Sheets |-> (CA :> << MoveRow(NameX, 1, << <<"X", "A">>, <<"/", "^", "Z", "/">> >>),
                          MoveRow(NameY, 1, << Macro1 >>) >>)
                @@ (CB :> << MoveRow(NameX, 1, << <<"W">> >>) >>)]
\* as LiveGood1 with the alias XA and the character B removed, X's data changed
LiveGood2 ==
    [Characters |-> <<CharRow(CA)>>,
     Macros |-> Macros1,
     Sheets |-> (CA :> << MoveRow(NameX, 2, << <<"/", "^", "Z", "/">> >>),
                          MoveRow(NameY, 1, << Macro1 >>) >>)]
\* a duplicate move name: importMovesAndAliases throws in its loop
LiveDupMove ==
    [Characters |-> <<CharRow(CA)>>,
     Macros |-> Macros1,
     Sheets |-> (CA :> << MoveRow(NameX, 1, << <<"W">> >>),
                          MoveRow(NameX, 1, << <<"Z">> >>) >>)]
\* an alias equal to a later move's name: SimpleAlias.bulkCreate throws
LiveDupSelf ==
    [Characters |-> <<CharRow(CA)>>,
     Macros |-> Macros1,
     Sheets |-> (CA :> << MoveRow(NameX, 1, << NameY >>),
                          MoveRow(NameY, 1, << <<"W">> >>) >>)]
LiveSheets == {LiveGood1, LiveGood2, LiveDupMove, LiveDupSelf}

\* the sheets a catalog is built from: character A's sheet is any sequence of
\* at most MaxRows rows of RowPool, in each of the SheetFrames
MaxRows == 2
NameXBang == <<"X", "!">>
PatStartZ == <<"/", "^", "Z", "/">>
PatEndZ == <<"/", "Z", "$", "/">>
RowPool ==
    { MoveRow(NameX, 1, << <<"X", "A">>, PatStartZ >>),
      MoveRow(NameY, 1, << Macro1, PatEndZ, <<"Z", "A">> >>),
      MoveRow(NameY, 1, << <<"X", "A">> >>),
      MoveRow(NameY, 1, << NameX >>),
      MoveRow(NameY, 1, << <<"P">>, <<"/", "(", "/">> >>),
      MoveRow(NameY, 1, << Macro2 >>),
      MoveRow(NameXBang, 1, << <<"W">> >>),
      MoveRow(NameX, 1, << >>),
      MoveRow(<<>>, 1, << <<"W">> >>) }
RECURSIVE SeqsUpTo(_, _)
SeqsUpTo(S, n) ==
    IF n = 0 THEN {<<>>}
    ELSE LET shorter == SeqsUpTo(S, n - 1)
         IN shorter \cup {Append(q, x) : q \in shorter, x \in S}
RowLists == SeqsUpTo(RowPool, MaxRows)
SheetFrames ==
    { [Characters |-> <<CharRow(CA)>>, Macros |-> Macros1, B |-> <<>>],
      [Characters |-> <<CharRow(CA), CharRow(CB)>>, Macros |-> Macros1,
       B |-> << MoveRow(NameX, 1, << <<"W">> >>) >>],
      [Characters |-> <<CharRow(CA), CharRow(CB)>>, Macros |-> Macros1,
       B |-> << MoveRow(NameX, 1, << PatStartZ >>) >>],
      [Characters |-> <<CharRow(CA), CharRow(CA)>>, Macros |-> Macros1, B |-> <<>>],
      [Characters |-> <<CharRow(CA)>>, Macros |-> Macros1 \o Macros1, B |-> <<>>] }
AllSheets ==
    { [Characters |-> f.Characters, Macros |-> f.Macros,
       Sheets |-> (CA :> rows) @@ (CB :> f.B)] : f \in SheetFrames, rows \in RowLists }

---------------------------------------------------------------------------
(* State *)

VARIABLES
    doc,          \* the Google sheet as it is now
    sharedConn,   \* whether Sequelize runs every statement on one connection
    db,           \* the five tables
    txOpen,       \* a BEGIN without its COMMIT or ROLLBACK on the shared connection
    txSnap,       \* the tables as they were at that BEGIN
    fuseCache,    \* fuse-cache.ts fuseCache: character name -> index rows
    ready,        \* the client is logged in (the startup import succeeded)
    imp,          \* the importData calls in progress
    fd,           \* the /fd interactions in progress
    nDownloads,   \* /download interactions so far
    nRequests,    \* /fd interactions so far
    nEdits,       \* edits of the sheet so far
    last,         \* the last importData call that ended: its result, and the
                  \* tables as they were when it started
    rateLimiter,  \* rate-limiter.ts rateLimiter: user id -> {count, resetTime}
    now,          \* Date.now()
    uncleaned,    \* rateLimiter as it would be had the cleanup never run
    granted,      \* the checkRateLimit calls that returned true, in order
    embedCache,   \* embeds.ts embedCache: the embeds built, each with its key
    sent          \* what each interaction has called of interaction.reply and
                  \* interaction.followUp, in order, since it began

vars ==
    <<doc, sharedConn, db, txOpen, txSnap, fuseCache, ready, imp, fd,
      nDownloads, nRequests, nEdits, last,
      rateLimiter, now, uncleaned, granted, embedCache, sent>>

MaxDownloads == 2
MaxRequests == 2
MaxEdits == 1

Importers == {"i1", "i2"}
\* the /fd interactions that can be in progress at once; FirstResolver where
\* they are taken one at a time
Resolvers == {"r1", "r2"}
FirstResolver == {"r1"}

NoBatchYet == [ok |-> TRUE, move |-> <<>>, simple |-> <<>>, regex |-> <<>>]
\* config["approved-maintainers"] and the ids of the users who type /download
ApprovedMaintainers == {"m1"}
Users == ApprovedMaintainers \cup {"u1"}

IdleImport ==
    \* before, src: the tables and the sheet as they were when the call began
    \* user: interaction.user.id of the /download being handled
    [pc |-> "idle", startup |-> FALSE, ok |-> FALSE, before |-> EmptyDb,
     src |-> <<>>, chars |-> <<>>, batch |-> NoBatchYet, user |-> "none"]
IdleFd ==
    \* quiet, dl: no import was running, and how many /download there had been,
    \* when the interaction began
    \* user: interaction.user.id; allowed: what checkRateLimit returned, and
    \* twin: what it returns in the run without cleanup
    \* prettyName: of the Character row read; embed: what buildEmbed returned
    [pc |-> "idle", character |-> <<>>, raw |-> <<>>, move |-> <<>>, rows |-> <<>>,
     strategy |-> "none", canonical |-> <<>>, alias |-> <<>>, outcome |-> "none",
     quiet |-> FALSE, dl |-> 0, user |-> "none", allowed |-> TRUE, twin |-> TRUE,
     prettyName |-> <<>>, embed |-> <<>>]

---------------------------------------------------------------------------
(* buildEmbed and its cache (utils/discord/embeds.ts)                       *)

\* the EmbedBuilder of lines 26-61: its title is the cache key, its fields are
\* the move's data
NewEmbed(prettyName, move) ==
    [key |-> <<prettyName, move.MoveName>>, damage |-> move.Damage]

\* buildEmbed, lines 17-64: the cached embed of the key, or a new one, cached
BuildEmbed(cache, prettyName, move) ==
    LET cacheKey == <<prettyName, move.MoveName>>
        cacheResult == {e \in cache : e.key = cacheKey}
    IN IF cacheResult # {}
       THEN [embed |-> CHOOSE e \in cacheResult : TRUE, cache |-> cache]
       ELSE LET builder == NewEmbed(prettyName, move)
            IN [embed |-> builder, cache |-> cache \cup {builder}]

\* lines 89-91 of buildAllEmbeds: buildEmbed for each move of a character
RECURSIVE BuildEmbeds(_, _, _)
BuildEmbeds(cache, prettyName, moves) ==
    IF moves = <<>> THEN cache
    ELSE BuildEmbeds(BuildEmbed(cache, prettyName, moves[1]).cache,
                     prettyName, Tail(moves))

---------------------------------------------------------------------------
(* What an interaction sends: reply, followUp, and the listener's catch     *)

\* interaction.reply(...) and interaction.followUp(...)
Reply(log) == Append(log, "reply")
FollowUp(log) == Append(log, "followUp")
\* the catch of a listener that always replies
HandleErrorReply(log) == Reply(log)
\* the catch of the listener in index.ts, lines 80-87: interaction.replied
HandleError(log) ==
    IF \E k \in 1..Len(log) : log[k] = "reply" THEN FollowUp(log) ELSE Reply(log)

---------------------------------------------------------------------------
(* checkRateLimit and its cleanup (utils/core/rate-limiter.ts)              *)

\* config['rate-limiter']: limit and window-milliseconds, positive integers
Limit == 2
Window == 2

NoEntries == << >>
Delete(map, gone) == [u \in DOMAIN map \ gone |-> map[u]]
Expired(entry, t) == t > entry.resetTime

\* checkRateLimit that lets a user through while count is not above the limit
CheckRateLimitOneMore(map, userId, t) ==
    IF userId \notin DOMAIN map \/ Expired(map[userId], t)
    THEN [ok |-> TRUE,
          map |-> (userId :> [count |-> 1, resetTime |-> t + Window]) @@ map]
    ELSE IF map[userId].count > Limit
    THEN [ok |-> FALSE, map |-> map]
    ELSE [ok |-> TRUE, map |-> [map EXCEPT ![userId].count = @ + 1]]

\* checkRateLimit, lines 20-39: what it returns and the map it leaves
CheckRateLimit(map, userId, t) ==
    IF userId \notin DOMAIN map \/ Expired(map[userId], t)
    THEN [ok |-> TRUE,
          map |-> (userId :> [count |-> 1, resetTime |-> t + Window]) @@ map]
    ELSE IF map[userId].count >= Limit
    THEN [ok |-> FALSE, map |-> map]
    ELSE [ok |-> TRUE, map |-> [map EXCEPT ![userId].count = @ + 1]]

---------------------------------------------------------------------------
(* importData (utils/data/import-data.ts:64-85), one action per stretch     *)
(* between awaits. None of its statements is given the transaction, so what *)
(* BEGIN, COMMIT and ROLLBACK cover depends on the connection they share    *)
(* with it: sharedConn.                                                     *)

SetImp(i, pc, chars, batch) ==
    imp' = [imp EXCEPT ![i] = [@ EXCEPT !.pc = pc, !.chars = chars, !.batch = batch]]

\* a throw inside sequelize.transaction(): ROLLBACK, then importData rejects
ImportFailed(i) ==
    /\ db' = IF sharedConn /\ txOpen THEN txSnap ELSE db
    /\ txOpen' = FALSE
    /\ txSnap' = EmptyDb
    /\ last' = [ok |-> FALSE, before |-> imp[i].before]
    /\ imp' = [imp EXCEPT ![i] = [@ EXCEPT !.pc = "done", !.ok = FALSE,
                                            !.chars = <<>>, !.batch = NoBatchYet]]

\* line 68: BEGIN; on a connection that already has a transaction open it is
\* an error, and the failed transaction is rolled back on that connection
BeginTransaction(i) ==
    /\ imp[i].pc = "begin"
    /\ IF sharedConn /\ txOpen
       THEN ImportFailed(i)
       ELSE /\ txOpen' = sharedConn
            /\ txSnap' = IF sharedConn THEN db ELSE EmptyDb
            /\ SetImp(i, "syncCharacter", <<>>, NoBatchYet)
            /\ UNCHANGED <<db, last>>
    /\ UNCHANGED <<doc, sharedConn, rateLimiter, now, uncleaned, granted, embedCache, fuseCache, ready, fd, sent, nDownloads, nRequests, nEdits>>

\* lines 72-76: Model.sync({force: true}) drops and recreates the table
SyncCharacter(i) ==
    /\ imp[i].pc = "syncCharacter"
    /\ db' = [db EXCEPT !.Character = <<>>]
    /\ SetImp(i, "syncMacro", <<>>, NoBatchYet)
    /\ UNCHANGED <<doc, sharedConn, rateLimiter, now, uncleaned, granted, embedCache, txOpen, txSnap, fuseCache, ready, fd, sent,
                   nDownloads, nRequests, nEdits, last>>
SyncMacro(i) ==
    /\ imp[i].pc = "syncMacro"
    /\ db' = [db EXCEPT !.Macro = <<>>]
    /\ SetImp(i, "syncMove", <<>>, NoBatchYet)
    /\ UNCHANGED <<doc, sharedConn, rateLimiter, now, uncleaned, granted, embedCache, txOpen, txSnap, fuseCache, ready, fd, sent,
                   nDownloads, nRequests, nEdits, last>>
\* Move.sync() without {force: true}: the table keeps its rows
SyncMoveKeep(i) ==
    /\ imp[i].pc = "syncMove"
    /\ SetImp(i, "syncSimpleAlias", <<>>, NoBatchYet)
    /\ UNCHANGED <<doc, sharedConn, rateLimiter, now, uncleaned, granted, embedCache, db, txOpen, txSnap, fuseCache, ready, fd, sent,
                   nDownloads, nRequests, nEdits, last>>

SyncMove(i) ==
    /\ imp[i].pc = "syncMove"
    /\ db' = [db EXCEPT !.Move = <<>>]
    /\ SetImp(i, "syncSimpleAlias", <<>>, NoBatchYet)
    /\ UNCHANGED <<doc, sharedConn, rateLimiter, now, uncleaned, granted, embedCache, txOpen, txSnap, fuseCache, ready, fd, sent,
                   nDownloads, nRequests, nEdits, last>>
SyncSimpleAlias(i) ==
    /\ imp[i].pc = "syncSimpleAlias"
    /\ db' = [db EXCEPT !.SimpleAlias = <<>>]
    /\ SetImp(i, "syncRegexAlias", <<>>, NoBatchYet)
    /\ UNCHANGED <<doc, sharedConn, rateLimiter, now, uncleaned, granted, embedCache, txOpen, txSnap, fuseCache, ready, fd, sent,
                   nDownloads, nRequests, nEdits, last>>
SyncRegexAlias(i) ==
    /\ imp[i].pc = "syncRegexAlias"
    /\ db' = [db EXCEPT !.RegexAlias = <<>>]
    /\ SetImp(i, "importCharacters", <<>>, NoBatchYet)
    /\ UNCHANGED <<doc, sharedConn, rateLimiter, now, uncleaned, granted, embedCache, txOpen, txSnap, fuseCache, ready, fd, sent,
                   nDownloads, nRequests, nEdits, last>>

\* importCharacters, lines 87-106
ImportCharacters(i) ==
    /\ imp[i].pc = "importCharacters"
    /\ LET loop == CharacterLoop(doc.Characters, <<>>)
           bulk == BulkCreateCharacter(db.Character, loop.data)
       IN IF ~loop.ok \/ ~bulk.ok
          THEN ImportFailed(i)
          ELSE /\ db' = [db EXCEPT !.Character = bulk.table]
               /\ SetImp(i, "importMacros", <<>>, NoBatchYet)
               /\ UNCHANGED <<txOpen, txSnap, last>>
    /\ UNCHANGED <<doc, sharedConn, rateLimiter, now, uncleaned, granted, embedCache, fuseCache, ready, fd, sent, nDownloads, nRequests, nEdits>>

\* importMacros, lines 108-127
ImportMacros(i) ==
    /\ imp[i].pc = "importMacros"
    /\ LET loop == MacroLoop(doc.Macros, <<>>)
           bulk == BulkCreateMacro(db.Macro, loop.data)
       IN IF ~loop.ok \/ ~bulk.ok
          THEN ImportFailed(i)
          ELSE /\ db' = [db EXCEPT !.Macro = bulk.table]
               /\ SetImp(i, "moveCharacters", <<>>, NoBatchYet)
               /\ UNCHANGED <<txOpen, txSnap, last>>
    /\ UNCHANGED <<doc, sharedConn, rateLimiter, now, uncleaned, granted, embedCache, fuseCache, ready, fd, sent, nDownloads, nRequests, nEdits>>

\* importMovesAndAliases, lines 134-139: the Characters rows, read again
MoveCharacters(i) ==
    /\ imp[i].pc = "moveCharacters"
    /\ SetImp(i, IF doc.Characters = <<>> THEN "bulkMove" ELSE "moveSheet",
              doc.Characters, NoBatchYet)
    /\ UNCHANGED <<doc, sharedConn, rateLimiter, now, uncleaned, granted, embedCache, db, txOpen, txSnap, fuseCache, ready, fd, sent,
                   nDownloads, nRequests, nEdits, last>>

\* lines 140-219, one character: its sheet is fetched and its rows validated;
\* the Macro table is read as it is now
MoveSheet(i) ==
    /\ imp[i].pc = "moveSheet"
    /\ LET c == imp[i].chars[1].Name
           rest == Tail(imp[i].chars)
       IN IF Len(c) = 0 \/ c \notin DOMAIN doc.Sheets
          THEN ImportFailed(i)
          ELSE LET b == MoveRowLoop(doc.Sheets[c], c, imp[i].batch, db.Macro)
               IN IF ~b.ok
                  THEN ImportFailed(i)
                  ELSE /\ SetImp(i, IF rest = <<>> THEN "bulkMove" ELSE "moveSheet", rest, b)
                       /\ UNCHANGED <<db, txOpen, txSnap, last>>
    /\ UNCHANGED <<doc, sharedConn, rateLimiter, now, uncleaned, granted, embedCache, fuseCache, ready, fd, sent, nDownloads, nRequests, nEdits>>

\* lines 220-222
BulkMove(i) ==
    /\ imp[i].pc = "bulkMove"
    /\ LET bulk == BulkCreateMove(db.Move, imp[i].batch.move)
       IN IF ~bulk.ok
          THEN ImportFailed(i)
          ELSE /\ db' = [db EXCEPT !.Move = bulk.table]
               /\ SetImp(i, "bulkSimpleAlias", <<>>, imp[i].batch)
               /\ UNCHANGED <<txOpen, txSnap, last>>
    /\ UNCHANGED <<doc, sharedConn, rateLimiter, now, uncleaned, granted, embedCache, fuseCache, ready, fd, sent, nDownloads, nRequests, nEdits>>
BulkSimpleAlias(i) ==
    /\ imp[i].pc = "bulkSimpleAlias"
    /\ LET bulk == BulkCreateSimpleAlias(db.SimpleAlias, imp[i].batch.simple)
       IN IF ~bulk.ok
          THEN ImportFailed(i)
          ELSE /\ db' = [db EXCEPT !.SimpleAlias = bulk.table]
               /\ SetImp(i, "bulkRegexAlias", <<>>, imp[i].batch)
               /\ UNCHANGED <<txOpen, txSnap, last>>
    /\ UNCHANGED <<doc, sharedConn, rateLimiter, now, uncleaned, granted, embedCache, fuseCache, ready, fd, sent, nDownloads, nRequests, nEdits>>
BulkRegexAlias(i) ==
    /\ imp[i].pc = "bulkRegexAlias"
    /\ LET bulk == BulkCreateRegexAlias(db.RegexAlias, imp[i].batch.regex)
       IN IF ~bulk.ok
          THEN ImportFailed(i)
          ELSE /\ db' = [db EXCEPT !.RegexAlias = bulk.table]
               /\ SetImp(i, "commit", <<>>, NoBatchYet)
               /\ UNCHANGED <<txOpen, txSnap, last>>
    /\ UNCHANGED <<doc, sharedConn, rateLimiter, now, uncleaned, granted, embedCache, fuseCache, ready, fd, sent, nDownloads, nRequests, nEdits>>

\* line 84: COMMIT; with no transaction open on the connection it is an error
CommitTransaction(i) ==
    /\ imp[i].pc = "commit"
    /\ IF sharedConn /\ ~txOpen
       THEN ImportFailed(i)
       ELSE /\ txOpen' = FALSE
            /\ txSnap' = EmptyDb
            /\ imp' = [imp EXCEPT ![i] = [@ EXCEPT !.pc = "done", !.ok = TRUE]]
            /\ last' = [ok |-> TRUE, before |-> imp[i].before]
            /\ UNCHANGED db
    /\ UNCHANGED <<doc, sharedConn, rateLimiter, now, uncleaned, granted, embedCache, fuseCache, ready, fd, sent, nDownloads, nRequests, nEdits>>

---------------------------------------------------------------------------
(* index.ts (startup) and the /download command                             *)

\* buildAllEmbeds, embeds.ts:78-80, called when importData has resolved
\* (index.ts and download.ts): embedCache.clear(), then Character.findAll()
ClearEmbeds(i) ==
    /\ imp[i].pc = "done" /\ imp[i].ok
    /\ embedCache' = {}
    /\ imp' = [imp EXCEPT ![i] = [@ EXCEPT !.pc = "embedCharacters"]]
    /\ UNCHANGED <<doc, sharedConn, rateLimiter, now, uncleaned, granted, db, txOpen, txSnap, fuseCache, ready, fd, sent,
                   nDownloads, nRequests, nEdits, last>>

\* lines 80-81: the characters read
EmbedCharacters(i) ==
    /\ imp[i].pc = "embedCharacters"
    /\ imp' = [imp EXCEPT ![i] = [@ EXCEPT !.chars = db.Character,
                                           !.pc = IF db.Character = <<>> THEN "built"
                                                  ELSE "embedMoves"]]
    /\ UNCHANGED <<doc, sharedConn, rateLimiter, now, uncleaned, granted, embedCache, db, txOpen, txSnap, fuseCache, ready, fd, sent,
                   nDownloads, nRequests, nEdits, last>>

\* lines 82-92: Move.findAll of the next character, and buildEmbed for each
\* of its moves
EmbedMoves(i) ==
    /\ imp[i].pc = "embedMoves"
    /\ LET character == imp[i].chars[1]
           moves == RowsOf(db.Move, character.Name)
       IN embedCache' = BuildEmbeds(embedCache, character.PrettyName, moves)
    /\ imp' = [imp EXCEPT ![i] = [@ EXCEPT !.chars = Tail(@),
                                           !.pc = IF Len(imp[i].chars) = 1 THEN "built"
                                                  ELSE "embedMoves"]]
    /\ UNCHANGED <<doc, sharedConn, rateLimiter, now, uncleaned, granted, db, txOpen, txSnap, fuseCache, ready, fd, sent,
                   nDownloads, nRequests, nEdits, last>>

\* index.ts: await importData() and await buildAllEmbeds() before
\* client.login(); a rejection ends the process
StartupDone(i) ==
    /\ imp[i].pc = "built" /\ imp[i].startup
    /\ ready' = TRUE
    /\ imp' = [imp EXCEPT ![i] = IdleImport]
    /\ UNCHANGED <<doc, sharedConn, rateLimiter, now, uncleaned, granted, embedCache, db, txOpen, txSnap, fuseCache, fd, sent,
                   nDownloads, nRequests, nEdits, last>>

\* download.ts:12-15, an approved maintainer
StartDownload(i) ==
    /\ ready /\ imp[i].pc = "idle" /\ nDownloads < MaxDownloads
    /\ nDownloads' = nDownloads + 1
    /\ \E u \in ApprovedMaintainers :
          imp' = [imp EXCEPT ![i] = [IdleImport EXCEPT !.pc = "begin", !.before = db,
                                                       !.src = doc, !.user = u]]
    /\ sent' = [sent EXCEPT ![i] = Reply(<<>>)]
    /\ UNCHANGED <<doc, sharedConn, rateLimiter, now, uncleaned, granted, embedCache, db, txOpen, txSnap, fuseCache, ready, fd,
                   nRequests, nEdits, last>>

\* download.ts:16-21: the followUp, success or failure; the failure is
\* thrown again and caught by the listener
FinishDownload(i) ==
    /\ imp[i].pc = "built" \/ (imp[i].pc = "done" /\ ~imp[i].ok)
    /\ ~imp[i].startup
    /\ imp' = [imp EXCEPT ![i] = IdleImport]
    /\ sent' = [sent EXCEPT ![i] = IF imp[i].ok THEN FollowUp(@)
                                   ELSE HandleError(FollowUp(@))]
    /\ UNCHANGED <<doc, sharedConn, rateLimiter, now, uncleaned, granted, embedCache, db, txOpen, txSnap, fuseCache, ready, fd,
                   nDownloads, nRequests, nEdits, last>>

\* a /download of any user that begins the import without the check of line 12
RefuseDownloadUnchecked(i) ==
    /\ ready /\ imp[i].pc = "idle"
    /\ \E u \in Users \ ApprovedMaintainers :
          imp' = [imp EXCEPT ![i] = [IdleImport EXCEPT !.pc = "begin", !.before = db,
                                                       !.src = doc, !.user = u]]
    /\ sent' = [sent EXCEPT ![i] = Reply(<<>>)]
    /\ UNCHANGED <<doc, sharedConn, rateLimiter, now, uncleaned, granted, embedCache, db, txOpen, txSnap, fuseCache, ready, fd,
                   nDownloads, nRequests, nEdits, last>>

\* download.ts:12, 23: a user who is not an approved maintainer; the handler
\* goes to its else branch
RefuseDownload(i) ==
    /\ ready /\ imp[i].pc = "idle"
    /\ \E u \in Users \ ApprovedMaintainers :
          imp' = [imp EXCEPT ![i] = [IdleImport EXCEPT !.pc = "refuse", !.before = db,
                                                       !.src = doc, !.user = u]]
    /\ sent' = [sent EXCEPT ![i] = <<>>]
    /\ UNCHANGED <<doc, sharedConn, rateLimiter, now, uncleaned, granted, embedCache, db, txOpen, txSnap, fuseCache, ready, fd,
                   nDownloads, nRequests, nEdits, last>>

\* download.ts:24: the reply "Only maintainers can refresh data."
ReplyRefusal(i) ==
    /\ imp[i].pc = "refuse"
    /\ imp' = [imp EXCEPT ![i] = IdleImport]
    /\ sent' = [sent EXCEPT ![i] = Reply(@)]
    /\ UNCHANGED <<doc, sharedConn, rateLimiter, now, uncleaned, granted, embedCache, db, txOpen, txSnap, fuseCache, ready, fd,
                   nDownloads, nRequests, nEdits, last>>

\* a maintainer edits the sheet
EditSheet ==
    /\ nEdits < MaxEdits
    /\ nEdits' = nEdits + 1
    /\ doc' \in LiveSheets \ {doc}
    /\ UNCHANGED <<sharedConn, rateLimiter, now, uncleaned, granted, embedCache, db, txOpen, txSnap, fuseCache, ready, imp, fd, sent,
                   nDownloads, nRequests, last>>

---------------------------------------------------------------------------
(* The three search strategies and fetchMove (commands/fd.ts), as functions *)
(* of the rows they read                                                    *)

NoResult == [found |-> FALSE, threw |-> FALSE, canonicalName |-> <<>>, via |-> <<>>]

\* simpleAliasSearch: SimpleAlias.findOne({where: {Character, Alias}})
SimpleAliasSearch(table, characterName, moveName) ==
    LET hit == SelectSeqIdx(table,
                  [i \in 1..Len(table) |-> /\ table[i].Character = characterName
                                           /\ table[i].Alias = moveName])
    IN IF hit = <<>> THEN NoResult
       ELSE [found |-> TRUE, threw |-> FALSE,
             canonicalName |-> hit[1].MoveName, via |-> hit[1].Alias]

\* the rows searched from the last to the first: of several matching
\* patterns the last one wins
RECURSIVE RegexFindLast(_, _)
RegexFindLast(rows, moveName) ==
    IF rows = <<>> THEN NoResult
    ELSE LET row == rows[Len(rows)]
         IN IF ~RegexCompiles(row.Pattern) THEN [NoResult EXCEPT !.threw = TRUE]
            ELSE IF RegexTest(row.Pattern, moveName)
                 THEN [found |-> TRUE, threw |-> FALSE,
                       canonicalName |-> row.MoveName, via |-> row.Pattern]
                 ELSE RegexFindLast(SubSeq(rows, 1, Len(rows) - 1), moveName)

\* regexAliases.find((r) => checkRegex(r, moveName)): the rows in order, each
\* pattern compiled and tested; a pattern that does not compile throws
RECURSIVE RegexFind(_, _)
RegexFind(rows, moveName) ==
    IF rows = <<>> THEN NoResult
    ELSE IF ~RegexCompiles(rows[1].Pattern) THEN [NoResult EXCEPT !.threw = TRUE]
    ELSE IF RegexTest(rows[1].Pattern, moveName)
         THEN [found |-> TRUE, threw |-> FALSE,
               canonicalName |-> rows[1].MoveName, via |-> rows[1].Pattern]
         ELSE RegexFind(Tail(rows), moveName)

\* the search without the where clause of lines 456-458: the patterns of
\* every character are tried
RegexAliasSearchAllRows(table, characterName, moveName) ==
    RegexFind(table, moveName)

\* regexAliasSearch: RegexAlias.findAll({where: {Character}}), then the find
RegexAliasSearch(table, characterName, moveName) ==
    RegexFind(RowsOf(table, characterName), moveName)

\* getFuse, the miss: SimpleAlias.findAll({attributes: [Alias, Move Name], where})
FuseRows(table, characterName) ==
    LET rows == RowsOf(table, characterName)
    IN [i \in 1..Len(rows) |-> [Alias |-> rows[i].Alias, MoveName |-> rows[i].MoveName]]

\* fuzzyAliasSearch, after getFuse: results[0] of fuse.search(moveName)
FuzzyAliasSearch(index, moveName) ==
    LET results == FuseSearch(index, moveName)
    IN IF results = <<>> THEN NoResult
       ELSE [found |-> TRUE, threw |-> FALSE,
             canonicalName |-> results[1].MoveName, via |-> results[1].Alias]

\* a result string that leaves the matched pattern or alias out
ResultStringNoVia(strategy, moveName, via, canonicalName) ==
    CASE strategy = "simple" ->
            <<"Simple alias match for ">> \o moveName \o <<" -> ">> \o canonicalName
      [] strategy = "regex" ->
            <<"Regex alias match for ">> \o moveName \o <<" -> ">> \o canonicalName
      [] strategy = "fuzzy" ->
            <<"Fuzzy alias match for ">> \o moveName \o <<" -> ">> \o canonicalName
      [] OTHER -> <<"No match via any strategy!">>

\* SearchResult.resultString: lines 438, 472 and 487, and line 420 when no
\* strategy matched (the emoji and the quotes around the pattern left out)
ResultString(strategy, moveName, via, canonicalName) ==
    CASE strategy = "simple" ->
            <<"Simple alias match for ">> \o moveName \o <<" -> ">> \o canonicalName
      [] strategy = "regex" ->
            <<"Regex alias match for ">> \o moveName \o <<" ~= ">> \o via \o <<" -> ">>
                \o canonicalName
      [] strategy = "fuzzy" ->
            <<"Fuzzy alias match for ">> \o moveName \o <<" -> ">> \o via \o <<" -> ">>
                \o canonicalName
      [] OTHER -> <<"No match via any strategy!">>

\* fetchMove: Move.findOne({where: {Character, Move Name}})
FetchMoveRows(table, characterName, canonicalName) ==
    SelectSeqIdx(table,
        [i \in 1..Len(table) |-> /\ table[i].Character = characterName
                                 /\ table[i].MoveName = canonicalName])

---------------------------------------------------------------------------
(* The /fd interaction (commands/fd.ts execute), one action per stretch     *)
(* between awaits                                                           *)

\* what the users of the running bot type
LiveCharacterInputs == {CA, CB}
LiveMoveInputs == {<<"x", "a">>, <<"V">>}
\* what is typed against the catalog of one sheet
CharacterInputs == {CA, CB, CC}
MoveInputs ==
    {<<"X">>, <<"Y">>, <<"X", "!">>, <<"x", "a">>, <<"Z", "Z">>, <<"Z", "A">>,
     <<"Q">>, <<"V">>, <<"V", "V", "V">>}

\* character.get('Pretty Name') of the row Character.findByPk returns
PrettyNameOf(table, characterName) ==
    LET k == CHOOSE k \in 1..Len(table) : table[k].Name = characterName
    IN table[k].PrettyName

\* a stretch of /fd execute ends at pc "done" with its reply sent, or with a
\* throw that the listener catches
SetFd(r, rec) ==
    /\ fd' = [fd EXCEPT ![r] = rec]
    /\ LET log == IF fd[r].pc = "idle" THEN <<>> ELSE sent[r]
       IN sent' = [sent EXCEPT ![r] =
                     IF rec.pc # "done" THEN log
                     ELSE IF rec.outcome = "threw" THEN HandleError(log)
                     ELSE Reply(log)]
FdDone(r, outcome) == SetFd(r, [fd[r] EXCEPT !.pc = "done", !.outcome = outcome])
FdFound(r, strategy, res) ==
    SetFd(r, [fd[r] EXCEPT !.pc = "fetchMove", !.strategy = strategy,
                           !.canonical = res.canonicalName, !.alias = res.via])

\* lines 272-286: the rate limit of the user, then the character option,
\* sanitised
StartFdBy(r, userId, rawCharacter, rawMove) ==
    /\ ready /\ fd[r].pc = "idle"
    /\ nRequests' = nRequests + 1
    /\ LET check == CheckRateLimit(rateLimiter, userId, now)
           twin == CheckRateLimit(uncleaned, userId, now)
           characterName == Sanitise(rawCharacter)
           fresh == [IdleFd EXCEPT !.raw = rawMove, !.dl = nDownloads,
                                   !.quiet = \A i \in Importers : imp[i].pc = "idle",
                                   !.user = userId, !.allowed = check.ok,
                                   !.twin = twin.ok]
           opened == userId \notin DOMAIN rateLimiter
                         \/ Expired(rateLimiter[userId], now)
       IN /\ rateLimiter' = check.map
          /\ uncleaned' = twin.map
          /\ granted' = IF check.ok
                        THEN Append(granted, [user |-> userId, t |-> now,
                                              opened |-> opened])
                        ELSE granted
          /\ IF ~check.ok
             THEN SetFd(r, [fresh EXCEPT !.pc = "done", !.outcome = "rateLimited"])
             ELSE IF characterName = <<>>
             THEN SetFd(r, [fresh EXCEPT !.pc = "done", !.outcome = "badCharacter"])
             ELSE SetFd(r, [fresh EXCEPT !.pc = "findCharacter",
                                          !.character = characterName,
                                          !.move = NormaliseMove(rawMove)])
    /\ UNCHANGED <<doc, sharedConn, now, embedCache, db, txOpen, txSnap, fuseCache,
                   ready, imp, nDownloads, nEdits, last>>

\* the /fd of the one user of the specifications that ask who types only
\* where the rate limit is concerned
StartFd(r, rawCharacter, rawMove) ==
    /\ nRequests < MaxRequests
    /\ StartFdBy(r, "u1", rawCharacter, rawMove)

\* the handler without the Character.findByPk of lines 290-297: the move is
\* resolved for whatever character name was typed
FindCharacterNoLookup(r) ==
    /\ fd[r].pc = "findCharacter"
    /\ IF fd[r].move = <<>>
       THEN FdDone(r, "emptyMove")
       ELSE SetFd(r, [fd[r] EXCEPT !.pc = "simple", !.prettyName = fd[r].character])
    /\ UNCHANGED <<doc, sharedConn, rateLimiter, now, uncleaned, granted, embedCache, db, txOpen, txSnap, fuseCache, ready, imp,
                   nDownloads, nRequests, nEdits, last>>

\* the handler without the check of lines 301-305: an empty move name goes on
\* to findCanonicalMoveName
FindCharacterNoEmptyCheck(r) ==
    /\ fd[r].pc = "findCharacter"
    /\ IF ~CheckDuplicateCharacter(db.Character, fd[r].character)
       THEN FdDone(r, "unknownCharacter")
       ELSE SetFd(r, [fd[r] EXCEPT !.pc = "simple",
                                   !.prettyName = PrettyNameOf(db.Character, fd[r].character)])
    /\ UNCHANGED <<doc, sharedConn, rateLimiter, now, uncleaned, granted, embedCache, db, txOpen, txSnap, fuseCache, ready, imp,
                   nDownloads, nRequests, nEdits, last>>

\* lines 290-305: Character.findByPk, then the move option, normalised
FindCharacter(r) ==
    /\ fd[r].pc = "findCharacter"
    /\ IF ~CheckDuplicateCharacter(db.Character, fd[r].character)
       THEN FdDone(r, "unknownCharacter")
       ELSE IF fd[r].move = <<>>
       THEN FdDone(r, "emptyMove")
       ELSE SetFd(r, [fd[r] EXCEPT !.pc = "simple",
                                   !.prettyName = PrettyNameOf(db.Character, fd[r].character)])
    /\ UNCHANGED <<doc, sharedConn, rateLimiter, now, uncleaned, granted, embedCache, db, txOpen, txSnap, fuseCache, ready, imp,
                   nDownloads, nRequests, nEdits, last>>

\* the cascade with the pattern search ahead of the simple one
TryRegexBeforeSimple(r) ==
    /\ fd[r].pc = "simple"
    /\ LET first == RegexAliasSearch(db.RegexAlias, fd[r].character, fd[r].move)
           res == SimpleAliasSearch(db.SimpleAlias, fd[r].character, fd[r].move)
       IN IF first.threw THEN FdDone(r, "threw")
          ELSE IF first.found THEN FdFound(r, "regex", first)
          ELSE IF res.found THEN FdFound(r, "simple", res)
          ELSE SetFd(r, [fd[r] EXCEPT !.pc = "regex"])
    /\ UNCHANGED <<doc, sharedConn, rateLimiter, now, uncleaned, granted, embedCache, db, txOpen, txSnap, fuseCache, ready, imp,
                   nDownloads, nRequests, nEdits, last>>

\* findCanonicalMoveName, lines 400-404
TrySimple(r) ==
    /\ fd[r].pc = "simple"
    /\ LET res == SimpleAliasSearch(db.SimpleAlias, fd[r].character, fd[r].move)
       IN IF res.found THEN FdFound(r, "simple", res)
          ELSE SetFd(r, [fd[r] EXCEPT !.pc = "regex"])
    /\ UNCHANGED <<doc, sharedConn, rateLimiter, now, uncleaned, granted, embedCache, db, txOpen, txSnap, fuseCache, ready, imp,
                   nDownloads, nRequests, nEdits, last>>

\* lines 407-411
TryRegex(r) ==
    /\ fd[r].pc = "regex"
    /\ LET res == RegexAliasSearch(db.RegexAlias, fd[r].character, fd[r].move)
       IN IF res.threw THEN FdDone(r, "threw")
          ELSE IF res.found THEN FdFound(r, "regex", res)
          ELSE SetFd(r, [fd[r] EXCEPT !.pc = "fuzzy"])
    /\ UNCHANGED <<doc, sharedConn, rateLimiter, now, uncleaned, granted, embedCache, db, txOpen, txSnap, fuseCache, ready, imp,
                   nDownloads, nRequests, nEdits, last>>

\* getFuse that finds its entry and still searches the table's rows
FuzzyCachedRereads(r) ==
    /\ fd[r].pc = "fuzzy"
    /\ fd[r].character \in DOMAIN fuseCache
    /\ LET res == FuzzyAliasSearch(FuseRows(db.SimpleAlias, fd[r].character), fd[r].move)
       IN IF res.found THEN FdFound(r, "fuzzy", res)
          ELSE SetFd(r, [fd[r] EXCEPT !.pc = "done", !.strategy = "notFound",
                                      !.outcome = "notFound"])
    /\ UNCHANGED <<doc, sharedConn, rateLimiter, now, uncleaned, granted, embedCache, db, txOpen, txSnap, fuseCache, ready, imp,
                   nDownloads, nRequests, nEdits, last>>

\* lines 414-425 with a cached index: fuse-cache.ts:13-15, then the search
FuzzyCached(r) ==
    /\ fd[r].pc = "fuzzy"
    /\ fd[r].character \in DOMAIN fuseCache
    /\ LET res == FuzzyAliasSearch(fuseCache[fd[r].character], fd[r].move)
       IN IF res.found THEN FdFound(r, "fuzzy", res)
          ELSE SetFd(r, [fd[r] EXCEPT !.pc = "done", !.strategy = "notFound",
                                      !.outcome = "notFound"])
    /\ UNCHANGED <<doc, sharedConn, rateLimiter, now, uncleaned, granted, embedCache, db, txOpen, txSnap, fuseCache, ready, imp,
                   nDownloads, nRequests, nEdits, last>>

\* fuse-cache.ts:16-23: no cached index, the alias rows are read
FuseRead(r) ==
    /\ fd[r].pc = "fuzzy"
    /\ fd[r].character \notin DOMAIN fuseCache
    /\ SetFd(r, [fd[r] EXCEPT !.pc = "fuseBuild",
                              !.rows = FuseRows(db.SimpleAlias, fd[r].character)])
    /\ UNCHANGED <<doc, sharedConn, rateLimiter, now, uncleaned, granted, embedCache, db, txOpen, txSnap, fuseCache, ready, imp,
                   nDownloads, nRequests, nEdits, last>>

\* getFuse with fuseCache.clear() ahead of its set(): the new index is the
\* only entry left
FuseBuildAlone(r) ==
    /\ fd[r].pc = "fuseBuild"
    /\ fuseCache' = (fd[r].character :> fd[r].rows)
    /\ LET res == FuzzyAliasSearch(fd[r].rows, fd[r].move)
       IN IF res.found
          THEN SetFd(r, [fd[r] EXCEPT !.pc = "fetchMove", !.strategy = "fuzzy",
                                      !.canonical = res.canonicalName,
                                      !.alias = res.via, !.rows = <<>>])
          ELSE SetFd(r, [fd[r] EXCEPT !.pc = "done", !.strategy = "notFound",
                                      !.outcome = "notFound", !.rows = <<>>])
    /\ UNCHANGED <<doc, sharedConn, rateLimiter, now, uncleaned, granted, embedCache, db, txOpen, txSnap, ready, imp,
                   nDownloads, nRequests, nEdits, last>>

\* fuse-cache.ts:32-34: the index is built and cached, then the search
FuseBuild(r) ==
    /\ fd[r].pc = "fuseBuild"
    /\ fuseCache' = (fd[r].character :> fd[r].rows) @@ fuseCache
    /\ LET res == FuzzyAliasSearch(fd[r].rows, fd[r].move)
       IN IF res.found
          THEN SetFd(r, [fd[r] EXCEPT !.pc = "fetchMove", !.strategy = "fuzzy",
                                      !.canonical = res.canonicalName,
                                      !.alias = res.via, !.rows = <<>>])
          ELSE SetFd(r, [fd[r] EXCEPT !.pc = "done", !.strategy = "notFound",
                                      !.outcome = "notFound", !.rows = <<>>])
    /\ UNCHANGED <<doc, sharedConn, rateLimiter, now, uncleaned, granted, embedCache, db, txOpen, txSnap, ready, imp,
                   nDownloads, nRequests, nEdits, last>>

\* lines 329-351: fetchMove throws when the move is missing, else buildEmbed
\* and the reply
FetchMove(r) ==
    /\ fd[r].pc = "fetchMove"
    /\ LET rows == FetchMoveRows(db.Move, fd[r].character, fd[r].canonical)
       IN IF rows = <<>>
          THEN FdDone(r, "threw") /\ UNCHANGED embedCache
          ELSE LET built == BuildEmbed(embedCache, fd[r].prettyName, rows[1])
               IN /\ embedCache' = built.cache
                  /\ SetFd(r, [fd[r] EXCEPT !.pc = "done", !.outcome = "move",
                                            !.embed = <<built.embed>>])
    /\ UNCHANGED <<doc, sharedConn, rateLimiter, now, uncleaned, granted, db, txOpen, txSnap, fuseCache, ready, imp,
                   nDownloads, nRequests, nEdits, last>>

\* the reply is sent; the interaction is over
FinishFd(r) ==
    /\ fd[r].pc = "done"
    /\ SetFd(r, IdleFd)
    /\ UNCHANGED <<doc, sharedConn, rateLimiter, now, uncleaned, granted, embedCache, db, txOpen, txSnap, fuseCache, ready, imp,
                   nDownloads, nRequests, nEdits, last>>

---------------------------------------------------------------------------
(* The bot: one startup import, then interactions interleaved at awaits     *)

InitCommon ==
    /\ sharedConn \in BOOLEAN
    /\ db = EmptyDb
    /\ txOpen = FALSE
    /\ txSnap = EmptyDb
    /\ fuseCache = <<>>
    /\ ready = FALSE
    /\ imp = [i \in Importers |->
                IF i = "i1" THEN [IdleImport EXCEPT !.pc = "begin", !.startup = TRUE]
                ELSE IdleImport]
    /\ fd = [r \in Resolvers |-> IdleFd]
    /\ nDownloads = 0
    /\ nRequests = 0
    /\ nEdits = 0
    /\ last = [ok |-> FALSE, before |-> EmptyDb]
    /\ rateLimiter = NoEntries
    /\ now = 0
    /\ uncleaned = NoEntries
    /\ granted = <<>>
    /\ embedCache = {}
    /\ sent = [x \in Importers \cup Resolvers |-> <<>>]

Init == doc \in LiveSheets /\ InitCommon

ImportStep(i) ==
    \/ BeginTransaction(i)
    \/ SyncCharacter(i) \/ SyncMacro(i) \/ SyncMove(i)
    \/ SyncSimpleAlias(i) \/ SyncRegexAlias(i)
    \/ ImportCharacters(i) \/ ImportMacros(i)
    \/ MoveCharacters(i) \/ MoveSheet(i)
    \/ BulkMove(i) \/ BulkSimpleAlias(i) \/ BulkRegexAlias(i)
    \/ CommitTransaction(i)
    \/ ClearEmbeds(i) \/ EmbedCharacters(i) \/ EmbedMoves(i)
    \/ StartupDone(i) \/ FinishDownload(i)

\* the import of index.ts alone: no /download follows
StartupStep(i) ==
    \/ BeginTransaction(i)
    \/ SyncCharacter(i) \/ SyncMacro(i) \/ SyncMove(i)
    \/ SyncSimpleAlias(i) \/ SyncRegexAlias(i)
    \/ ImportCharacters(i) \/ ImportMacros(i)
    \/ MoveCharacters(i) \/ MoveSheet(i)
    \/ BulkMove(i) \/ BulkSimpleAlias(i) \/ BulkRegexAlias(i)
    \/ CommitTransaction(i)
    \/ ClearEmbeds(i) \/ EmbedCharacters(i) \/ EmbedMoves(i)
    \/ StartupDone(i)

FdStep(r) ==
    \/ FindCharacter(r) \/ TrySimple(r) \/ TryRegex(r)
    \/ FuzzyCached(r) \/ FuseRead(r) \/ FuseBuild(r)
    \/ FetchMove(r) \/ FinishFd(r)

AllIdle ==
    /\ \A i \in Importers : imp[i].pc = "idle"
    /\ \A r \in Resolvers : fd[r].pc = "idle"

\* the running bot: one /download at a time, /fd interleaved with it at its awaits
Next ==
    \/ StartDownload("i1") \/ ImportStep("i1")
    \/ \E r \in FirstResolver : FdStep(r)
    \/ \E r \in FirstResolver, c \in LiveCharacterInputs, m \in LiveMoveInputs :
            StartFd(r, c, m)
    \/ EditSheet

Spec == Init /\ [][Next]_vars

\* one sheet, any of AllSheets, and one interaction at a time
InitCatalog == doc \in AllSheets /\ InitCommon

NextCatalog ==
    \/ AllIdle /\ StartDownload("i1")
    \/ ImportStep("i1")
    \/ \E r \in FirstResolver : FdStep(r)
    \/ \E r \in FirstResolver, c \in CharacterInputs, m \in MoveInputs :
            AllIdle /\ StartFd(r, c, m)

SpecCatalog == InitCatalog /\ [][NextCatalog]_vars

\* as LiveGood2 with a macro token in Y's cell that no Macros row defines
LiveUndefinedMacro ==
    [Characters |-> <<CharRow(CA)>>,
     Macros |-> Macros1,
     Sheets |-> (CA :> << MoveRow(NameX, 2, << <<"/", "^", "Z", "/">> >>),
                          MoveRow(NameY, 1, << Macro2 >>) >>)]
MacroSheets == {LiveGood1, LiveUndefinedMacro}

\* a maintainer mistypes a macro token in the sheet, or repairs it
EditMacroSheet ==
    /\ nEdits < MaxEdits
    /\ nEdits' = nEdits + 1
    /\ doc' \in MacroSheets \ {doc}
    /\ UNCHANGED <<sharedConn, rateLimiter, now, uncleaned, granted, embedCache, db, txOpen, txSnap, fuseCache, ready, imp, fd, sent,
                   nDownloads, nRequests, last>>

\* the maintainers alone, on a sheet whose macro tokens they edit
InitMacros == doc \in MacroSheets /\ InitCommon

NextMacros ==
    \/ \E i \in Importers : StartDownload(i) \/ ImportStep(i)
    \/ EditMacroSheet

SpecMacros == InitMacros /\ [][NextMacros]_vars

\* the README's example: character A has a move with the alias BEAT EXTEND,
\* and users type it with several spaces, with none, and as it is written
BeatExtend == <<"B", "E", "A", "T", SP, "E", "X", "T", "E", "N", "D">>
LiveBeat ==
    [Characters |-> <<CharRow(CA)>>,
     Macros |-> Macros1,
     Sheets |-> (CA :> << MoveRow(NameX, 1, << BeatExtend >>) >>)]
BeatInputs ==
    { <<"b", "e", "a", "t", SP, SP, SP, "e", "x", "t", "e", "n", "d">>,
      <<"b", "e", "a", "t", "e", "x", "t", "e", "n", "d">>,
      BeatExtend }

InitBeat == doc = LiveBeat /\ InitCommon

NextBeat ==
    \/ AllIdle /\ StartDownload("i1")
    \/ ImportStep("i1")
    \/ \E r \in FirstResolver : FdStep(r)
    \/ \E r \in FirstResolver, m \in BeatInputs : AllIdle /\ StartFd(r, CA, m)

SpecBeat == InitBeat /\ [][NextBeat]_vars

\* what a user can type as the move option: any string of at most MaxRawLen
\* characters, here over a letter, the space and a character outside the
\* whitelist
MaxRawLen == 3
RawAlphabet == {"a", SP, "!"}
RawInputs == SeqsUpTo(RawAlphabet, MaxRawLen)

InitKeys == doc = LiveGood1 /\ InitCommon

NextKeys ==
    \/ AllIdle /\ StartDownload("i1")
    \/ ImportStep("i1")
    \/ \E r \in FirstResolver : FdStep(r)
    \/ \E r \in FirstResolver, c \in CharacterInputs, m \in RawInputs :
            AllIdle /\ StartFd(r, c, m)

SpecKeys == InitKeys /\ [][NextKeys]_vars

\* /download typed by maintainers and by other users, /fd interleaved
InitRefusals == doc = LiveGood1 /\ InitCommon

NextRefusals ==
    \/ StartDownload("i1") \/ ImportStep("i1")
    \/ RefuseDownload("i2") \/ ReplyRefusal("i2")
    \/ \E r \in FirstResolver : FdStep(r)
    \/ \E r \in FirstResolver, c \in LiveCharacterInputs, m \in LiveMoveInputs :
            StartFd(r, c, m)

SpecRefusals == InitRefusals /\ [][NextRefusals]_vars

\* /fd interactions of one character overlapping each other and a /download
FuseMoveInputs == {<<"x", "a">>, <<"V">>}

InitFuse == doc = LiveGood1 /\ InitCommon

NextFuse ==
    \/ StartDownload("i1") \/ ImportStep("i1")
    \/ \E r \in Resolvers : FdStep(r)
    \/ \E r \in Resolvers, m \in FuseMoveInputs : StartFd(r, CA, m)

SpecFuse == InitFuse /\ [][NextFuse]_vars

\* the maintainers alone: /download interactions, each handled as it arrives
\* (index.ts InteractionCreate awaits nothing before execute), and edits
NextDownloads ==
    \/ \E i \in Importers : StartDownload(i) \/ ImportStep(i)
    \/ EditSheet

SpecDownloads == Init /\ [][NextDownloads]_vars

---------------------------------------------------------------------------
(* What one complete importData stores for a sheet, as a function of the    *)
(* sheet (import-data.ts:64-85 run start to end with nothing interleaved)   *)

RECURSIVE SheetsLoop(_, _, _, _)
SheetsLoop(chars, sheets, batch, macroTable) ==
    IF chars = <<>> THEN batch
    ELSE LET c == chars[1].Name
         IN IF Len(c) = 0 \/ c \notin DOMAIN sheets THEN NoBatch
            ELSE LET b == MoveRowLoop(sheets[c], c, batch, macroTable)
                 IN IF ~b.ok THEN b
                    ELSE SheetsLoop(Tail(chars), sheets, b, macroTable)

ImportOf(d) ==
    LET chars == CharacterLoop(d.Characters, <<>>)
        charTable == BulkCreateCharacter(<<>>, chars.data)
        macros == MacroLoop(d.Macros, <<>>)
        macroTable == BulkCreateMacro(<<>>, macros.data)
    IN IF ~chars.ok \/ ~charTable.ok \/ ~macros.ok \/ ~macroTable.ok
       THEN [ok |-> FALSE, db |-> EmptyDb]
       ELSE LET b == SheetsLoop(d.Characters, d.Sheets, NoBatchYet, macroTable.table)
                move == BulkCreateMove(<<>>, b.move)
                simple == BulkCreateSimpleAlias(<<>>, b.simple)
                regex == BulkCreateRegexAlias(<<>>, b.regex)
            IN IF ~b.ok \/ ~move.ok \/ ~simple.ok \/ ~regex.ok
               THEN [ok |-> FALSE, db |-> EmptyDb]
               ELSE [ok |-> TRUE,
                     db |-> [Character |-> charTable.table, Macro |-> macroTable.table,
                             Move |-> move.table, SimpleAlias |-> simple.table,
                             RegexAlias |-> regex.table]]

---------------------------------------------------------------------------
(* Vocabulary of the properties                                             *)

\* a /download's importData is between its BEGIN and its end
ImportOver == {"idle", "done", "embedCharacters", "embedMoves", "built"}
ImportRunning(i) == imp[i].pc \notin ImportOver /\ ~imp[i].startup

\* no import is running and the last one to end succeeded
ImportedQuiet == last.ok /\ \A i \in Importers : imp[i].pc \in ImportOver

\* the interaction of r began with no import running, and none has begun since
QuietRun(r) ==
    /\ fd[r].quiet /\ fd[r].dl = nDownloads
    /\ \A i \in Importers : imp[i].pc = "idle"

\* r's next step is a read of the tables
ReadStep(r) ==
    /\ fd'[r] # fd[r]
    /\ \/ fd[r].pc \in {"findCharacter", "simple", "regex", "fetchMove"}
       \/ fd[r].pc = "fuzzy" /\ fd[r].character \notin DOMAIN fuseCache

HasSimpleAlias(d, c, q) ==
    \E k \in 1..Len(d.SimpleAlias) :
        d.SimpleAlias[k].Character = c /\ d.SimpleAlias[k].Alias = q

HasMatchingPattern(d, c, q) ==
    \E k \in 1..Len(d.RegexAlias) :
        /\ d.RegexAlias[k].Character = c
        /\ RegexCompiles(d.RegexAlias[k].Pattern)
        /\ RegexTest(d.RegexAlias[k].Pattern, q)

---------------------------------------------------------------------------
(* C1. A /download whose import fails leaves the five tables exactly as     *)
(* they were before it began.                                               *)

\* the tables held a complete imported catalog when the /download of i began
BeganOnWholeCatalog(i) ==
    \E d \in LiveSheets : ImportOf(d).ok /\ imp[i].before = ImportOf(d).db

\* C1: at the step in which the importData of a /download ends in failure,
\* if that /download began on a complete catalog and the sheet it was given
\* (unchanged since) is one that fails validation, every table is left
\* holding the rows it held when that /download began
C1_FailedImportLeavesTables ==
    [][\A i \in Importers :
          ( /\ imp[i].pc # "done" /\ imp'[i].pc = "done" /\ ~imp'[i].ok
            /\ ~imp[i].startup
            /\ imp[i].src = doc /\ ~ImportOf(doc).ok
            /\ BeganOnWholeCatalog(i) )
          => db' = imp[i].before]_vars

---------------------------------------------------------------------------
(* C2. A catalog read that interleaves with an import sees the whole        *)
(* pre-import catalog or the whole post-import catalog.                     *)

\* the tables hold what one complete import of some state of the sheet stores
WholeCatalog == \E d \in LiveSheets : ImportOf(d).ok /\ db = ImportOf(d).db

\* C2: every read of the tables that /fd makes while a /download's import is
\* running finds in them either the catalog as it was when that import began
\* or a complete imported catalog, never a state in between
C2_ReadsSeeWholeCatalog ==
    [][\A r \in Resolvers, i \in Importers :
          (ReadStep(r) /\ ImportRunning(i)) => (db = imp[i].before \/ WholeCatalog)]_vars

---------------------------------------------------------------------------
(* C3. After a re-import that removed alias A of character C, resolving A   *)
(* for C is NotFound, never a match from data cached before the import.     *)

\* C3: when an /fd that ran entirely after a successful import has ended, and
\* its query was an alias of its character before that import, is none after
\* it and matches no pattern of the character, its reply is "not found"
C3_RemovedAliasNotFound ==
    \A r \in Resolvers :
        ( /\ fd[r].pc = "done" /\ QuietRun(r) /\ last.ok
          /\ HasSimpleAlias(last.before, fd[r].character, fd[r].move)
          /\ ~HasSimpleAlias(db, fd[r].character, fd[r].move)
          /\ ~HasMatchingPattern(db, fd[r].character, fd[r].move) )
        => fd[r].outcome \in {"notFound", "unknownCharacter"}

---------------------------------------------------------------------------
(* C4. Every fuzzy search after a successful import uses an index built     *)
(* from the post-import SimpleAlias rows.                                   *)

\* C4: once an import has succeeded and none is running, the index a fuzzy
\* search uses, whether taken from the cache or built from rows read earlier
\* and cached now, holds exactly the character's current SimpleAlias rows
C4_FuzzyIndexIsPostImport ==
    [][\A r \in Resolvers :
          (ImportedQuiet /\ fd'[r] # fd[r]) =>
             /\ (fd[r].pc = "fuzzy" /\ fd[r].character \in DOMAIN fuseCache)
                   => fuseCache[fd[r].character] = FuseRows(db.SimpleAlias, fd[r].character)
             /\ fd[r].pc = "fuseBuild"
                   => fd[r].rows = FuseRows(db.SimpleAlias, fd[r].character)]_vars

---------------------------------------------------------------------------
(* Vocabulary of the properties about one catalog                           *)

\* r's cascade has ended with a strategy
Resolved(r) == fd[r].strategy # "none"

\* the rows of character c whose pattern compiles and matches q, in the order
\* RegexAlias.findAll returns them
MatchingRows(c, q) ==
    LET rows == RowsOf(db.RegexAlias, c)
    IN SelectSeqIdx(rows, [k \in 1..Len(rows) |->
                              RegexCompiles(rows[k].Pattern) /\ RegexTest(rows[k].Pattern, q)])

\* the position among c's rows of the first pattern that matches q, 0 if none
FirstMatchAt(c, q) ==
    LET rows == RowsOf(db.RegexAlias, c)
        hits == {k \in 1..Len(rows) :
                    RegexCompiles(rows[k].Pattern) /\ RegexTest(rows[k].Pattern, q)}
    IN IF hits = {} THEN 0 ELSE CHOOSE k \in hits : \A j \in hits : k <= j

\* a pattern of c that does not compile stands before position n
BadPatternBefore(c, n) ==
    LET rows == RowsOf(db.RegexAlias, c)
    IN \E j \in 1..Len(rows) : j < n /\ ~RegexCompiles(rows[j].Pattern)

---------------------------------------------------------------------------
(* C5. The raw name of every imported move resolves to that move by the     *)
(* Simple strategy.                                                         *)

\* C5: when an /fd whose move option is, character for character, the name of
\* a move of its character has been answered from a successfully imported
\* catalog, the strategy was Simple and the move returned is that move
C5_MoveNameResolvesSimple ==
    \A r \in Resolvers :
        ( /\ fd[r].pc = "done" /\ QuietRun(r) /\ ImportedQuiet
          /\ \E k \in 1..Len(db.Move) :
                db.Move[k].Character = fd[r].character /\ db.Move[k].MoveName = fd[r].raw )
        => ( fd[r].outcome = "move" /\ fd[r].strategy = "simple"
             /\ fd[r].canonical = fd[r].raw )

---------------------------------------------------------------------------
(* C6. The cascade is Simple, then Regex, then Fuzzy; the first that        *)
(* succeeds gives the result.                                               *)

\* C6: in a catalog that no import is changing, a strategy is consulted only
\* after the earlier ones failed; the result is Simple exactly when a
\* SimpleAlias row equals the query, even if a pattern matches too; it is
\* Regex only if no alias equals it and a pattern matches; Fuzzy only if
\* neither; NotFound only if the fuzzy search found nothing either; and the
\* move named is the one of the row the winning strategy found
C6_CascadeOrder ==
    \A r \in Resolvers :
        LET c == fd[r].character
            q == fd[r].move
            index == FuseRows(db.SimpleAlias, c)
        IN (QuietRun(r) /\ ImportedQuiet) =>
            /\ fd[r].pc \in {"regex", "fuzzy", "fuseBuild"} => ~HasSimpleAlias(db, c, q)
            /\ fd[r].pc \in {"fuzzy", "fuseBuild"} => ~HasMatchingPattern(db, c, q)
            /\ Resolved(r) =>
                /\ fd[r].strategy = "simple" <=> HasSimpleAlias(db, c, q)
                /\ fd[r].strategy = "simple" =>
                      \E k \in 1..Len(db.SimpleAlias) :
                         /\ db.SimpleAlias[k].Character = c /\ db.SimpleAlias[k].Alias = q
                         /\ db.SimpleAlias[k].MoveName = fd[r].canonical
                /\ fd[r].strategy = "regex" <=>
                      (~HasSimpleAlias(db, c, q) /\ HasMatchingPattern(db, c, q))
                /\ fd[r].strategy = "regex" =>
                      \E k \in 1..Len(MatchingRows(c, q)) :
                         MatchingRows(c, q)[k].MoveName = fd[r].canonical
                /\ fd[r].strategy = "fuzzy" =>
                      /\ ~HasSimpleAlias(db, c, q) /\ ~HasMatchingPattern(db, c, q)
                      /\ FuseSearch(index, q) # <<>>
                      /\ FuseSearch(index, q)[1].MoveName = fd[r].canonical
                /\ fd[r].strategy = "notFound" =>
                      /\ ~HasSimpleAlias(db, c, q) /\ ~HasMatchingPattern(db, c, q)
                      /\ FuseSearch(index, q) = <<>>

\* the Simple strategy gave the result of a query that a pattern of the
\* character matches as well
C6_Witness ==
    \E r \in Resolvers :
        /\ QuietRun(r) /\ ImportedQuiet
        /\ fd[r].strategy = "simple" /\ fd[r].outcome = "move"
        /\ HasMatchingPattern(db, fd[r].character, fd[r].move)

---------------------------------------------------------------------------
(* C7. A query that a RegexAlias row's pattern matches, and that no         *)
(* SimpleAlias row equals, resolves by Regex to that row's move.            *)

\* C7 as stated: for every RegexAlias row of the character whose pattern
\* matches the query, when no SimpleAlias row equals the query, the cascade
\* ends with strategy Regex and that row's move name
C7_EveryMatchingRowWins ==
    \A r \in Resolvers :
        LET c == fd[r].character
            q == fd[r].move
            hits == MatchingRows(c, q)
        IN ( /\ QuietRun(r) /\ ImportedQuiet
             /\ fd[r].pc \in {"fetchMove", "done"}
             /\ fd[r].outcome \notin {"badCharacter", "unknownCharacter", "emptyMove"}
             /\ ~HasSimpleAlias(db, c, q) ) =>
               \A k \in 1..Len(hits) :
                  fd[r].strategy = "regex" /\ fd[r].canonical = hits[k].MoveName

\* C7: when a pattern of the character matches the query and no SimpleAlias
\* row equals it, a cascade that returns a result returns strategy Regex with
\* the move name of the first matching row in the order findAll returns the
\* rows, which is the row's own move name when no earlier row matches; a
\* cascade that returns no result has thrown on a pattern standing before
\* that row which does not compile
C7_FirstMatchingRowWins ==
    \A r \in Resolvers :
        LET c == fd[r].character
            q == fd[r].move
            n == FirstMatchAt(c, q)
        IN ( /\ QuietRun(r) /\ ImportedQuiet
             /\ fd[r].pc \in {"fetchMove", "done"}
             /\ fd[r].outcome \notin {"badCharacter", "unknownCharacter", "emptyMove"}
             /\ ~HasSimpleAlias(db, c, q)
             /\ n > 0 ) =>
               IF Resolved(r)
               THEN /\ fd[r].strategy = "regex"
                    /\ fd[r].canonical = RowsOf(db.RegexAlias, c)[n].MoveName
                    /\ fd[r].alias = RowsOf(db.RegexAlias, c)[n].Pattern
               ELSE fd[r].outcome = "threw" /\ BadPatternBefore(c, n)

\* two patterns of the character, of different moves, match the query; the
\* result is the first one's move
C7_Witness ==
    \E r \in Resolvers :
        LET hits == MatchingRows(fd[r].character, fd[r].move)
        IN /\ QuietRun(r) /\ ImportedQuiet
           /\ fd[r].strategy = "regex" /\ fd[r].outcome = "move"
           /\ Len(hits) = 2 /\ hits[1].MoveName # hits[2].MoveName
           /\ fd[r].canonical = hits[1].MoveName

---------------------------------------------------------------------------
(* C8. The resolver throws exactly on an alias whose move is missing, never *)
(* because a query matches nothing, whatever patterns the catalog holds.    *)

\* C8: an /fd answered from a successfully imported catalog has thrown if and
\* only if an alias matched and the Move table has no row for the move it
\* names
C8_ThrowsOnlyOnMissingMove ==
    \A r \in Resolvers :
        (fd[r].pc = "done" /\ QuietRun(r) /\ ImportedQuiet) =>
            ( fd[r].outcome = "threw" <=>
                ( /\ fd[r].strategy \in {"simple", "regex", "fuzzy"}
                  /\ FetchMoveRows(db.Move, fd[r].character, fd[r].canonical) = <<>> ) )

---------------------------------------------------------------------------
(* C9. /fd for a character that is no key of the Character table ends in a  *)
(* "not found" reply and never returns a move.                              *)

KnownCharacter(c) == \E k \in 1..Len(db.Character) : db.Character[k].Name = c

\* C9: when /fd looks its character up and the Character table has no such
\* key, the interaction ends there with the unknown-character reply; no alias
\* is searched, no move fetched, and the reply is never a move
C9_UnknownCharacterNeverAMove ==
    [][\A r \in Resolvers :
          /\ (fd[r].pc = "findCharacter" /\ fd'[r] # fd[r] /\ ~KnownCharacter(fd[r].character))
                => (fd'[r].pc = "done" /\ fd'[r].outcome = "unknownCharacter"
                    /\ fd'[r].strategy = "none" /\ fd'[r].canonical = <<>>)
          /\ (fd[r].outcome = "unknownCharacter" /\ fd'[r] # fd[r]) => fd'[r] = IdleFd]_vars

\* an unknown character was refused although a fuzzy index cached for it,
\* from before the import that removed it, still holds its aliases
C9_Witness ==
    \E r \in Resolvers :
        /\ fd[r].outcome = "unknownCharacter"
        /\ fd[r].character \in DOMAIN fuseCache
        /\ fuseCache[fd[r].character] # <<>>
        /\ ImportedQuiet

---------------------------------------------------------------------------
(* C10. After a successful import the keys are unique: move names, aliases  *)
(* and patterns within a character, character names and macro keys          *)
(* globally; a source that breaks this fails instead.                       *)

\* the keys the sheet asks for, duplicates included, in the sheet's order
SourceCharacterKeys(d) == [k \in 1..Len(d.Characters) |-> d.Characters[k].Name]
SourceMacroKeys(d) == [k \in 1..Len(d.Macros) |-> d.Macros[k].Key]

RECURSIVE SourceExpand(_, _)
SourceExpand(tokens, macros) ==
    IF tokens = <<>> THEN <<>>
    ELSE LET m == SelectSeqIdx(macros, [k \in 1..Len(macros) |-> macros[k].Key = tokens[1]])
         IN (IF StartsWith(tokens[1], MacroPrefix) /\ m # <<>>
             THEN Split(m[1].Value) ELSE <<tokens[1]>>)
            \o SourceExpand(Tail(tokens), macros)

RECURSIVE SourceRowKeys(_, _, _)
SourceRowKeys(rows, c, macros) ==
    IF rows = <<>> THEN [move |-> <<>>, simple |-> <<>>, regex |-> <<>>]
    ELSE LET rest == SourceRowKeys(Tail(rows), c, macros)
             aliases == <<rows[1].MoveName>>
                          \o SourceExpand(SimpleAliasList(rows[1].Aliases), macros)
             patterns == RegexAliasList(rows[1].Aliases)
         IN [move |-> << <<c, rows[1].MoveName>> >> \o rest.move,
             simple |-> [k \in 1..Len(aliases) |-> <<c, aliases[k]>>] \o rest.simple,
             regex |-> [k \in 1..Len(patterns) |-> <<c, patterns[k]>>] \o rest.regex]

RECURSIVE SourceKeys(_, _)
SourceKeys(chars, d) ==
    IF chars = <<>> THEN [move |-> <<>>, simple |-> <<>>, regex |-> <<>>]
    ELSE LET here == SourceRowKeys(d.Sheets[chars[1].Name], chars[1].Name, d.Macros)
             rest == SourceKeys(Tail(chars), d)
         IN [move |-> here.move \o rest.move,
             simple |-> here.simple \o rest.simple,
             regex |-> here.regex \o rest.regex]

\* an importData call has just resolved
ImportJustSucceeded == \E i \in Importers : imp[i].pc = "done" /\ imp[i].ok

\* C10: when an import of the sheet has succeeded, every table's keys are
\* pairwise distinct (character names and macro keys in the whole table;
\* move names, aliases and patterns together with their character) and are
\* exactly the keys the sheet asks for, one row each: so a sheet that asks
\* for one key twice has not been imported
C10_KeysUnique ==
    ImportJustSucceeded =>
        /\ NoDuplicates(CharacterKeys(db.Character))
        /\ NoDuplicates(MacroKeys(db.Macro))
        /\ NoDuplicates(MoveKeys(db.Move))
        /\ NoDuplicates(SimpleAliasKeys(db.SimpleAlias))
        /\ NoDuplicates(RegexAliasKeys(db.RegexAlias))
        /\ CharacterKeys(db.Character) = SourceCharacterKeys(doc)
        /\ MacroKeys(db.Macro) = SourceMacroKeys(doc)
        /\ MoveKeys(db.Move) = SourceKeys(doc.Characters, doc).move
        /\ SimpleAliasKeys(db.SimpleAlias) = SourceKeys(doc.Characters, doc).simple
        /\ RegexAliasKeys(db.RegexAlias) = SourceKeys(doc.Characters, doc).regex

\* a successful import of two characters that both have a move of one name,
\* one of them with aliases from a macro
C10_Witness ==
    /\ ImportJustSucceeded
    /\ \E j, k \in 1..Len(db.Move) :
          /\ db.Move[j].MoveName = db.Move[k].MoveName
          /\ db.Move[j].Character # db.Move[k].Character
    /\ Len(db.SimpleAlias) >= 5

---------------------------------------------------------------------------
(* C11. A macro token of a move's alias cell registers every value of the   *)
(* macro as a SimpleAlias of the move, each resolving to it by Simple; the  *)
(* macros are stored before any move row is processed.                      *)

\* the <<character, move name, value>> the sheet asks for through macros: a
\* token of the move's cell with the macro prefix that is the Key of a
\* Macros row, and one of the newline-separated values of that row
SourceMacroAliases(d) ==
    UNION { UNION { UNION { { <<d.Characters[n].Name, d.Sheets[d.Characters[n].Name][j].MoveName, v>> :
                                 v \in Range(Split(d.Macros[m].Value)) } :
                              m \in { m \in 1..Len(d.Macros) :
                                        /\ StartsWith(d.Macros[m].Key, MacroPrefix)
                                        /\ \E t \in Range(SimpleAliasList(
                                                 d.Sheets[d.Characters[n].Name][j].Aliases)) :
                                              t = d.Macros[m].Key } } :
                      j \in 1..Len(d.Sheets[d.Characters[n].Name]) } :
            n \in 1..Len(d.Characters) }

\* C11: when an import of the sheet has succeeded, every value of a macro
\* that a move's cell names is a SimpleAlias row of that move; while the move
\* rows are processed the Macro table holds every macro of the sheet; and an
\* /fd whose lookup key is such a value ends with strategy Simple and that
\* move
C11_MacroValuesAreAliases ==
    /\ ImportJustSucceeded =>
          \A a \in SourceMacroAliases(doc) :
             \E k \in 1..Len(db.SimpleAlias) :
                db.SimpleAlias[k] = [Character |-> a[1], Alias |-> a[3], MoveName |-> a[2]]
    /\ \A i \in Importers :
          imp[i].pc = "moveSheet" => MacroKeys(db.Macro) = SourceMacroKeys(doc)
    /\ \A r \in Resolvers :
          (QuietRun(r) /\ ImportedQuiet /\ fd[r].pc \in {"fetchMove", "done"}
             /\ fd[r].outcome \notin {"badCharacter", "unknownCharacter", "emptyMove"}) =>
                \A a \in SourceMacroAliases(doc) :
                   (a[1] = fd[r].character /\ a[3] = fd[r].move) =>
                       (fd[r].strategy = "simple" /\ fd[r].canonical = a[2])

\* the second value of a two-valued macro was typed and gave, by Simple, the
\* move whose cell names the macro
C11_Witness ==
    \E r \in Resolvers :
        /\ QuietRun(r) /\ ImportedQuiet
        /\ fd[r].outcome = "move" /\ fd[r].strategy = "simple"
        /\ fd[r].move = <<"Q">>
        /\ <<fd[r].character, fd[r].canonical, <<"Q">> >> \in SourceMacroAliases(doc)
        /\ <<fd[r].character, fd[r].canonical, <<"P">> >> \in SourceMacroAliases(doc)

---------------------------------------------------------------------------
(* C12. A token with the macro prefix that no macro defines makes the whole *)
(* import fail, and no row of that import is committed.                     *)

\* some move of the sheet has a simple alias token with the macro prefix that
\* is the Key of no Macros row
HasUndefinedMacro(d) ==
    \E n \in 1..Len(d.Characters) :
       /\ d.Characters[n].Name \in DOMAIN d.Sheets
       /\ \E j \in 1..Len(d.Sheets[d.Characters[n].Name]) :
             \E t \in Range(SimpleAliasList(d.Sheets[d.Characters[n].Name][j].Aliases)) :
                /\ StartsWith(t, MacroPrefix)
                /\ \A m \in 1..Len(d.Macros) : d.Macros[m].Key # t

\* C12: the import of a /download given a sheet with an undefined macro token
\* (unchanged since) never succeeds, and at the step in which it throws for
\* that token, if the /download began on a complete catalog, the tables are
\* left holding the rows they held when it began: nothing that import wrote
\* stays
C12_UndefinedMacroCommitsNothing ==
    [][\A i \in Importers :
          ( /\ ~imp[i].startup
            /\ imp[i].src = doc /\ HasUndefinedMacro(doc)
            /\ BeganOnWholeCatalog(i) )
          => /\ ~(imp[i].pc = "commit" /\ imp'[i].pc = "done" /\ imp'[i].ok)
             /\ (imp[i].pc = "moveSheet" /\ imp'[i].pc = "done" /\ ~imp'[i].ok)
                   => db' = imp[i].before]_vars

---------------------------------------------------------------------------
(* C13. Importing twice in succession from identical source data gives the  *)
(* same rows in all five tables, and the second import succeeds whenever    *)
(* the first did.                                                           *)

\* C13: when the import of a /download has ended, begun on the tables a
\* successful import of the same sheet left, it has succeeded and each of the
\* five tables holds the rows it held before that import
C13_ReimportIdempotent ==
    \A i \in Importers :
        ( /\ imp[i].pc = "done" /\ ~imp[i].startup /\ imp[i].src = doc
          /\ ImportOf(doc).ok /\ imp[i].before = ImportOf(doc).db ) =>
            /\ imp[i].ok
            /\ db = imp[i].before

\* a second and a third import of a sheet with moves, aliases of both kinds
\* and a macro have ended
C13_Witness ==
    \E i \in Importers :
        /\ imp[i].pc = "done" /\ ~imp[i].startup /\ imp[i].ok
        /\ nDownloads = 2
        /\ db = imp[i].before
        /\ Len(db.Move) = 2 /\ Len(db.RegexAlias) > 0 /\ Len(db.Macro) > 0
        /\ Len(db.SimpleAlias) > 3

---------------------------------------------------------------------------
(* C14. With the simple alias BEAT EXTEND, the raw queries "beat   extend", *)
(* "beatextend" and "BEAT EXTEND" normalise to equivalent lookup keys and   *)
(* each is matched by Simple.                                               *)

\* C14: when the character has the simple alias BEAT EXTEND, every /fd whose
\* raw move is one of the three spellings has that alias as its lookup key
\* and is resolved by the Simple strategy to the move of that alias
C14_SpacingVariantsMatchSimple ==
    \A r \in Resolvers :
        ( /\ Resolved(r) /\ QuietRun(r) /\ ImportedQuiet
          /\ fd[r].raw \in BeatInputs
          /\ HasSimpleAlias(db, fd[r].character, BeatExtend) ) =>
            /\ fd[r].move = BeatExtend
            /\ fd[r].strategy = "simple"
            /\ fd[r].canonical = NameX

---------------------------------------------------------------------------
(* C15. The lookup key /fd passes to the resolver is the reference pipeline *)
(* of the raw query: strip, collapse whitespace runs, uppercase, trim,      *)
(* truncate to 100; it has no leading, trailing or repeated whitespace.     *)

\* every run of whitespace characters becomes one space
RECURSIVE CollapseEveryRun(_)
CollapseEveryRun(s) ==
    IF s = <<>> THEN <<>>
    ELSE IF Head(s) \in Whitespace THEN <<SP>> \o CollapseEveryRun(TrimStart(s))
    ELSE <<Head(s)>> \o CollapseEveryRun(Tail(s))

\* the pipeline in the order the specification gives
ReferenceKey(raw) ==
    Substring(Trim(ToUpperCase(CollapseEveryRun(StripOutsideWhitelist(raw)))),
              0, TruncateLen)

\* C15: the key with which /fd enters the resolver is the reference pipeline
\* of the raw move option, begins and ends with no whitespace character, has
\* no two whitespace characters in a row and is at most 100 characters long
C15_KeyIsReferencePipeline ==
    \A r \in Resolvers :
        fd[r].pc = "simple" =>
            /\ fd[r].move = ReferenceKey(fd[r].raw)
            /\ fd[r].move # <<>> =>
                  (Head(fd[r].move) \notin Whitespace
                     /\ fd[r].move[Len(fd[r].move)] \notin Whitespace)
            /\ \A k \in 1..(Len(fd[r].move) - 1) :
                  ~(fd[r].move[k] \in Whitespace /\ fd[r].move[k + 1] \in Whitespace)
            /\ Len(fd[r].move) <= TruncateLen

---------------------------------------------------------------------------
(* C16. A /download starts an import only for a user on the approved        *)
(* maintainers list; for any other user the tables and the caches are       *)
(* untouched and the only effect is the refusal reply.                      *)

\* C16: an import run for a /download is always run for an approved
\* maintainer; a /download of any other user is only ever at its refusal
\* reply; and no step of its handler changes a table, the open transaction
\* or the fuzzy index cache
C16_OnlyMaintainersImport ==
    [][\A i \in Importers :
          /\ (imp'[i].pc \notin {"idle", "refuse"} /\ ~imp'[i].startup)
                => imp'[i].user \in ApprovedMaintainers
          /\ (imp'[i].user \in Users \ ApprovedMaintainers) => imp'[i].pc = "refuse"
          /\ ( /\ imp[i].user \in Users \ ApprovedMaintainers
                  \/ imp'[i].user \in Users \ ApprovedMaintainers
               /\ imp'[i] # imp[i] )
                => UNCHANGED <<db, txOpen, txSnap, fuseCache, fd, last>>]_vars

\* a user who is not a maintainer typed /download while the tables held the
\* catalog and the fuzzy index cache held an index, and is about to be refused
C16_Witness ==
    \E i \in Importers :
        /\ imp[i].pc = "refuse" /\ imp[i].user \notin ApprovedMaintainers
        /\ imp[i].before = db
        /\ Len(db.Move) > 0
        /\ DOMAIN fuseCache # {}

---------------------------------------------------------------------------
(* C17. At no time are two imports in progress at once: the clear and       *)
(* repopulate steps of two imports never interleave.                        *)

\* importData has been called and has neither resolved nor rejected
Importing(i) == imp[i].pc \notin ImportOver \cup {"refuse"}

\* C17: at most one importData call is in progress in any state
C17_OneImportAtATime ==
    \A i, j \in Importers : (Importing(i) /\ Importing(j)) => i = j

---------------------------------------------------------------------------
(* C18. In every catalog state a resolve can read, every SimpleAlias and    *)
(* RegexAlias row names a move that has a Move row for the same character.  *)

\* every alias row of both kinds has its Move row
AliasesReferenceMoves(d) ==
    /\ \A k \in 1..Len(d.SimpleAlias) :
          <<d.SimpleAlias[k].Character, d.SimpleAlias[k].MoveName>>
              \in Range(MoveKeys(d.Move))
    /\ \A k \in 1..Len(d.RegexAlias) :
          <<d.RegexAlias[k].Character, d.RegexAlias[k].MoveName>>
              \in Range(MoveKeys(d.Move))

\* C18: at every step in which an /fd reads the tables (after the startup
\* import, after a re-import that succeeded or failed, or while an import is
\* suspended at one of its awaits), the tables it reads have no alias row
\* without its Move row
C18_AliasesReferenceMoves ==
    [][\A r \in Resolvers : ReadStep(r) => AliasesReferenceMoves(db)]_vars

---------------------------------------------------------------------------
(* C19. An /fd whose move query is empty after normalisation is answered    *)
(* with a validation failure and findCanonicalMoveName is never invoked.    *)

\* r is inside findCanonicalMoveName or past it
InResolver(r) == fd[r].pc \notin {"idle", "findCharacter", "done"}

\* C19: an /fd whose move option the handler normalises to the empty string
\* ends at a validation reply (the empty move name, or before it the
\* character) with no strategy tried, unless the rate limiter has turned the
\* interaction away before the handler read its options, and
\* findCanonicalMoveName is never entered with an empty key
C19_EmptyKeyNeverResolved ==
    \A r \in Resolvers :
        /\ InResolver(r) => fd[r].move # <<>>
        /\ (fd[r].pc # "idle" /\ NormaliseMove(fd[r].raw) = <<>>) =>
              /\ ~InResolver(r)
              /\ fd[r].strategy = "none"
              /\ fd[r].pc = "done" =>
                    IF fd[r].allowed
                    THEN /\ fd[r].outcome \in {"emptyMove", "badCharacter",
                                               "unknownCharacter"}
                         /\ (fd[r].outcome = "emptyMove")
                                = KnownCharacter(fd[r].character)
                    ELSE fd[r].outcome = "rateLimited"

\* a move option made of spaces around a character outside the whitelist was
\* typed for a known character and answered with the empty-move reply
C19_Witness ==
    \E r \in Resolvers :
        /\ fd[r].pc = "done" /\ fd[r].outcome = "emptyMove"
        /\ fd[r].raw = <<SP, "!", SP>>
        /\ KnownCharacter(fd[r].character)

---------------------------------------------------------------------------
(* C20. RegexAlias uniqueness is keyed by (Character, Pattern): one pattern *)
(* under two characters is imported, both rows stored; only a pattern       *)
(* repeated within one character is rejected.                               *)

\* the sheet has no defect under the keys of the five tables: no blank
\* character, macro or move name, no macro token without its macro, and no
\* key asked for twice, a pattern being keyed together with its character
SourceValid(d) ==
    LET k == SourceKeys(d.Characters, d)
    IN /\ \A n \in 1..Len(d.Characters) : d.Characters[n].Name # <<>>
       /\ \A m \in 1..Len(d.Macros) : d.Macros[m].Key # <<>>
       /\ \A j \in 1..Len(k.move) : k.move[j][2] # <<>>
       /\ ~HasUndefinedMacro(d)
       /\ NoDuplicates(SourceCharacterKeys(d))
       /\ NoDuplicates(SourceMacroKeys(d))
       /\ NoDuplicates(k.move)
       /\ NoDuplicates(k.simple)
       /\ NoDuplicates(k.regex)

\* C20: an import of a sheet with no such defect, be one pattern given to
\* moves of two characters or not, succeeds and stores one RegexAlias row for
\* every (character, pattern) of the sheet
C20_PatternUniquePerCharacter ==
    \A i \in Importers :
        (imp[i].pc = "done" /\ SourceValid(doc)) =>
            /\ imp[i].ok
            /\ RegexAliasKeys(db.RegexAlias) = SourceKeys(doc.Characters, doc).regex

---------------------------------------------------------------------------
(* C21. Of several patterns of a character that match the query, the Regex  *)
(* strategy returns the move of the first in retrieval order, the same on   *)
(* every resolve against an unchanged catalog.                              *)

\* C21: at every step in which regexAliasSearch returns a result, the result
\* is the move name and the pattern of the first row, in the order findAll
\* returns the character's rows, whose pattern matches the query: it is
\* determined by the rows read and the query alone, whatever was resolved or
\* cached before, so a repeated resolve on the same rows gives it again
C21_FirstMatchDeterministic ==
    [][\A r \in Resolvers :
          (fd[r].pc = "regex" /\ fd'[r].strategy = "regex") =>
              LET hits == MatchingRows(fd[r].character, fd[r].move)
              IN /\ hits # <<>>
                 /\ fd'[r].canonical = hits[1].MoveName
                 /\ fd'[r].alias = hits[1].Pattern
                 /\ fd'[r].character = fd[r].character /\ fd'[r].move = fd[r].move]_vars

\* the second /fd since startup was answered by Regex with the first of two
\* matching patterns of different moves
C21_Witness ==
    \E r \in Resolvers :
        LET hits == MatchingRows(fd[r].character, fd[r].move)
        IN /\ nRequests = 2 /\ nDownloads = 0
           /\ fd[r].pc = "fetchMove" /\ fd[r].strategy = "regex"
           /\ ~HasSimpleAlias(db, fd[r].character, fd[r].move)
           /\ Len(hits) = 2 /\ hits[1].MoveName # hits[2].MoveName
           /\ fd[r].canonical = hits[1].MoveName

---------------------------------------------------------------------------
(* C22. A resolve leaves the five tables unchanged and changes the fuzzy    *)
(* index cache only by adding the requested character's entry, and only     *)
(* after Simple and Regex failed.                                           *)

\* C22: no step of an /fd changes a table or the open transaction; a step of
\* an /fd that changes the index cache is the end of getFuse, reached with no
\* strategy yet successful, and it sets the entry of the requested character
\* and leaves every other entry as it was; while no import interferes, the
\* fuzzy stage is reached only when no alias equals the query and no pattern
\* matches it; and a resolve that has succeeded by Simple or Regex takes no
\* step that changes the cache
C22_ResolveFrame ==
    [][\A r \in Resolvers :
          (fd'[r] # fd[r]) =>
              LET c == fd[r].character
              IN /\ UNCHANGED <<db, txOpen, txSnap, doc>>
                 /\ (fuseCache' # fuseCache) =>
                       /\ fd[r].pc = "fuseBuild" /\ fd[r].strategy = "none"
                       /\ DOMAIN fuseCache' = DOMAIN fuseCache \cup {c}
                       /\ \A k \in DOMAIN fuseCache \ {c} : fuseCache'[k] = fuseCache[k]
                 /\ (fd[r].pc \in {"fuzzy", "fuseBuild"} /\ QuietRun(r) /\ ImportedQuiet) =>
                       (~HasSimpleAlias(db, c, fd[r].move)
                          /\ ~HasMatchingPattern(db, c, fd[r].move))
                 /\ (fd[r].strategy \in {"simple", "regex"}
                       \/ fd'[r].strategy \in {"simple", "regex"}) =>
                       fuseCache' = fuseCache]_vars

\* a resolve that fell through to the fuzzy search has just added its
\* character's index to a cache that held another character's
C22_Witness ==
    \E r \in Resolvers :
        /\ fd[r].strategy \in {"fuzzy", "notFound"}
        /\ fd[r].character \in DOMAIN fuseCache
        /\ \E k \in DOMAIN fuseCache : k # fd[r].character
        /\ Len(db.SimpleAlias) > 0

---------------------------------------------------------------------------
(* C23. getFuse builds a character's index from its current SimpleAlias     *)
(* rows on the first request and caches it; later requests get the cached   *)
(* index without reading the table; the cache holds one index a character.  *)

---------------------------------------------------------------------------
(* C24. Every result of findCanonicalMoveName has a non-empty trace, one of *)
(* the four strategies, and a null canonical name exactly for NotFound; the *)
(* trace of a Regex success names the pattern, of a Fuzzy success the alias.*)

\* the result string of the record r's cascade returned
ResultStringOf(r) ==
    ResultString(fd[r].strategy, fd[r].move, fd[r].alias, fd[r].canonical)

\* the string sub stands in s
Names(s, sub) ==
    \E k \in 1..(Len(s) - Len(sub) + 1) : SubSeq(s, k, k + Len(sub) - 1) = sub

\* C24: when the cascade has returned, its strategy is Simple, Regex, Fuzzy
\* or NotFound; its result string is not empty; it has no canonical name
\* exactly when the strategy is NotFound; after Regex the result string names
\* a pattern of the character that matches the query and belongs to the move
\* returned; after Fuzzy it names the alias of the index that was matched,
\* which belongs to the move returned
C24_ResultRecordWellFormed ==
    \A r \in Resolvers :
        Resolved(r) =>
            /\ fd[r].strategy \in {"simple", "regex", "fuzzy", "notFound"}
            /\ ResultStringOf(r) # <<>>
            /\ (fd[r].canonical = <<>>) <=> (fd[r].strategy = "notFound")
            /\ (fd[r].strategy = "regex" /\ QuietRun(r) /\ ImportedQuiet) =>
                  /\ Names(ResultStringOf(r), fd[r].alias)
                  /\ \E k \in 1..Len(db.RegexAlias) :
                        /\ db.RegexAlias[k].Character = fd[r].character
                        /\ db.RegexAlias[k].Pattern = fd[r].alias
                        /\ db.RegexAlias[k].MoveName = fd[r].canonical
                        /\ RegexTest(fd[r].alias, fd[r].move)
            /\ (fd[r].strategy = "fuzzy") =>
                  /\ Names(ResultStringOf(r), fd[r].alias)
                  /\ \E k \in 1..Len(fuseCache[fd[r].character]) :
                        /\ fuseCache[fd[r].character][k].Alias = fd[r].alias
                        /\ fuseCache[fd[r].character][k].MoveName = fd[r].canonical

\* results of both kinds have been returned: a Regex one naming its pattern,
\* or a Fuzzy one naming an alias that is not the query
C24_Witness ==
    \E r \in Resolvers :
        /\ QuietRun(r) /\ ImportedQuiet /\ nRequests = 2
        /\ fd[r].strategy = "fuzzy"
        /\ fd[r].alias # fd[r].move
        /\ Names(ResultStringOf(r), fd[r].alias)
        /\ Len(db.RegexAlias) > 0

---------------------------------------------------------------------------
(* C25. A token that begins and ends with "/" is stored as a RegexAlias     *)
(* whose Pattern is the token without its first and last character.         *)

\* the tokens of one Aliases cell: the delimiter alone, the empty pattern, a
\* pattern, a pattern with blanks around it, a token that only begins with
\* the delimiter, and a plain alias
MaxTokens == 2
TokenPool ==
    { <<"/">>, <<"/", "/">>, PatStartZ, <<SP, "/", "Z", "/", SP>>,
      <<"/", "W">>, <<"W">> }
\* the move X with any of these cells, alone or followed by the move Y whose
\* Aliases cell is empty
TokenSheets ==
    { [Characters |-> <<CharRow(CA)>>,
       Macros |-> Macros1,
       Sheets |-> (CA :> << MoveRow(NameX, 1, tokens) >> \o more)] :
         tokens \in SeqsUpTo(TokenPool, MaxTokens),
         more \in { <<>>, << MoveRow(NameY, 1, <<>>) >> } }

InitTokens == doc \in TokenSheets /\ InitCommon

NextTokens ==
    \/ AllIdle /\ StartDownload("i1")
    \/ ImportStep("i1")

SpecTokens == InitTokens /\ [][NextTokens]_vars

\* t with exactly its first and last character removed
StripDelimiters(t) == SubSeq(t, 2, Len(t) - 1)

HasPattern(d, c, p, moveName) ==
    \E k \in 1..Len(d.RegexAlias) :
        /\ d.RegexAlias[k].Character = c
        /\ d.RegexAlias[k].Pattern = p
        /\ d.RegexAlias[k].MoveName = moveName

\* C25: when an import has succeeded, every trimmed token of every Aliases
\* cell that begins and ends with "/" has a RegexAlias row of its character
\* and move whose Pattern is the token without its first and last character,
\* and no SimpleAlias row; this for tokens of every length, "/" and "//"
\* included
C25_PatternIsTokenStripped ==
    ImportJustSucceeded =>
        \A n \in 1..Len(doc.Characters) :
            LET c == doc.Characters[n].Name
                rows == doc.Sheets[c]
            IN \A j \in 1..Len(rows) :
                   \A t \in Range(AliasTokens(rows[j].Aliases)) :
                       IsRegexToken(t) =>
                           /\ HasPattern(db, c, StripDelimiters(t), rows[j].MoveName)
                           /\ ~HasSimpleAlias(db, c, t)

---------------------------------------------------------------------------
(* C26, C27. The rate limiter of /fd: checkRateLimit, the clock and the     *)
(* periodic cleanup.                                                        *)

MaxNow == 5
MaxChecks == 4

\* time passes; Date.now() is taken never to go back
Tick ==
    /\ now < MaxNow
    /\ now' = now + 1
    /\ UNCHANGED <<doc, sharedConn, db, txOpen, txSnap, fuseCache, ready, imp, fd, sent,
                   nDownloads, nRequests, nEdits, last, rateLimiter, uncleaned, granted,
                   embedCache>>

\* the cleanup that deletes the entries whose window has not yet ended as well
CleanupEverything ==
    /\ rateLimiter # NoEntries
    /\ rateLimiter' = NoEntries
    /\ UNCHANGED <<doc, sharedConn, db, txOpen, txSnap, fuseCache, ready, imp, fd, sent,
                   nDownloads, nRequests, nEdits, last, now, uncleaned, granted, embedCache>>

\* the setInterval callback, lines 43-51, at whatever time it runs
Cleanup ==
    /\ \E u \in DOMAIN rateLimiter : Expired(rateLimiter[u], now)
    /\ rateLimiter' =
          Delete(rateLimiter, {u \in DOMAIN rateLimiter : Expired(rateLimiter[u], now)})
    /\ UNCHANGED <<doc, sharedConn, db, txOpen, txSnap, fuseCache, ready, imp, fd, sent,
                   nDownloads, nRequests, nEdits, last, now, uncleaned, granted, embedCache>>

\* the users type /fd one after the other while time passes and the cleanup
\* runs when it will; the clock and the map are read in the first stretch of
\* a handler only, so time passes and the cleanup runs between handlers
InitLimiter == doc = LiveGood2 /\ InitCommon /\ sharedConn = TRUE

LimiterMoveInputs == {<<"X">>, <<"Z", "Z">>, <<"Y", "Y">>}

NextLimiter ==
    \/ StartupStep("i1")
    \/ \E r \in FirstResolver : FdStep(r)
    \/ \E r \in FirstResolver, u \in Users, m \in LimiterMoveInputs :
          AllIdle /\ nRequests < MaxChecks /\ StartFdBy(r, u, CA, m)
    \/ AllIdle /\ Tick
    \/ AllIdle /\ Cleanup

SpecLimiter == InitLimiter /\ [][NextLimiter]_vars

\* the calls of a user that returned true from the k-th on, no later than the
\* end of the window the k-th opened
GrantedInWindow(k) ==
    {j \in k..Len(granted) : /\ granted[j].user = granted[k].user
                             /\ granted[j].t <= granted[k].t + Window}

\* the step is a checkRateLimit call of resolver r
ChecksRateLimit(r) == fd[r].pc = "idle" /\ fd'[r].pc # "idle"

Entry(map, u) == IF u \in DOMAIN map THEN <<map[u]>> ELSE <<>>

\* C26: of the checkRateLimit calls of a user from the one that opens a
\* window (it finds no entry, or an expired one) to that entry's resetTime,
\* at most Limit return true; a call made when Limit of them have returned
\* true in the window still open returns false and leaves the user's entry
\* as it is; and no call changes the entry of another user
C26_AtMostLimitPerWindow ==
    [][/\ \A k \in 1..Len(granted') :
             granted'[k].opened => Cardinality(GrantedInWindow(k)') <= Limit
       /\ \A r \in Resolvers :
             ChecksRateLimit(r) =>
                LET u == fd'[r].user
                IN /\ \A k \in 1..Len(granted) :
                         (/\ granted[k].user = u /\ granted[k].opened
                          /\ now <= granted[k].t + Window
                          /\ Cardinality(GrantedInWindow(k)) >= Limit)
                         => /\ ~fd'[r].allowed
                            /\ Entry(rateLimiter', u) = Entry(rateLimiter, u)
                   /\ \A v \in Users \ {u} :
                         Entry(rateLimiter', v) = Entry(rateLimiter, v)]_vars

\* a user is refused inside a window in which Limit calls were let through
C26_Witness ==
    /\ \E r \in Resolvers : fd[r].outcome = "rateLimited"
    /\ \E k \in 1..Len(granted) :
          granted[k].opened /\ Cardinality(GrantedInWindow(k)) = Limit
    /\ \E k \in 1..Len(granted) : granted[k].opened /\ granted[k].t > 0

\* C27: whenever the cleanup callback has run, or has not, between the
\* checkRateLimit calls, every call returns what the same call returns in
\* the run of the same calls at the same times without any cleanup
C27_CleanupTransparent ==
    \A r \in Resolvers : fd[r].pc # "idle" => fd[r].allowed = fd[r].twin

\* a user whose earlier window the cleanup may have deleted is checked again,
\* while the entry of another user has been deleted by the cleanup
C27_Witness ==
    \E r \in Resolvers :
        /\ fd[r].pc # "idle"
        /\ \E k \in 1..Len(granted) :
              /\ granted[k].user = fd[r].user /\ granted[k].opened
              /\ granted[k].t + Window < now
        /\ DOMAIN uncleaned # DOMAIN rateLimiter

---------------------------------------------------------------------------
(* C28. Every /fd and /download interaction calls interaction.reply once,   *)
(* and followUp after it only.                                              *)

\* character A with a pattern that is not a regular expression
LiveBadPattern ==
    [Characters |-> <<CharRow(CA)>>,
     Macros |-> Macros1,
     Sheets |-> (CA :> << MoveRow(NameY, 1, << <<"P">>, <<"/", "(", "/">> >>) >>)]

\* the character and move options typed: a known character, one that is not
\* always in the catalog and one that sanitises to the empty string; an alias,
\* a move that sanitises to the empty string, and names that are no alias
ReplyCharacterInputs == {CA, CB, <<"!">>}
ReplyMoveInputs == {<<"x", "a">>, <<"V">>, <<"Y", "Y">>, <<"Z", "Z">>}

InitReplies == doc \in {LiveGood1, LiveBadPattern} /\ InitCommon

\* interactions one at a time: /download of a maintainer and of another user,
\* /fd of one user up to the call after the rate limit is reached, and edits
NextReplies ==
    \/ AllIdle /\ StartDownload("i1")
    \/ ImportStep("i1")
    \/ AllIdle /\ nDownloads < MaxDownloads /\ RefuseDownload("i2")
    \/ ReplyRefusal("i2")
    \/ EditSheet
    \/ \E r \in FirstResolver : FdStep(r)
    \/ \E r \in FirstResolver, c \in ReplyCharacterInputs, m \in ReplyMoveInputs :
          AllIdle /\ nRequests <= Limit /\ StartFdBy(r, "u1", c, m)

SpecReplies == InitReplies /\ [][NextReplies]_vars

Count(log, what) == Cardinality({k \in 1..Len(log) : log[k] = what})

\* the step ends the interaction x
Ends(x) ==
    \/ x \in Resolvers /\ fd[x].pc # "idle" /\ fd'[x].pc = "idle"
    \/ x \in Importers /\ imp[x].pc # "idle" /\ imp'[x].pc = "idle" /\ ~imp[x].startup

\* C28: whatever path a /fd or /download interaction takes, what it has sent
\* begins with a reply and holds no second reply, so that every followUp,
\* the one of the listener's catch included, comes after the reply; and when
\* the interaction ends it has replied
C28_ReplyExactlyOnce ==
    [][\A x \in Importers \cup Resolvers :
          /\ sent'[x] # <<>> =>
                sent'[x][1] = "reply" /\ Count(sent'[x], "reply") = 1
          /\ Ends(x) => Count(sent'[x], "reply") = 1]_vars

\* a /download whose import failed has sent its reply, its followUp and the
\* followUp of the listener, and a /fd whose fetchMove threw has got the
\* listener's reply
C28_Witness ==
    /\ sent["i1"] = <<"reply", "followUp", "followUp">>
    /\ \E r \in Resolvers :
          fd[r].pc = "done" /\ fd[r].outcome = "threw" /\ sent[r] = <<"reply">>

---------------------------------------------------------------------------
(* C29. A token that is empty after trimming is not registered as a         *)
(* SimpleAlias.                                                             *)

\* every Aliases cell of the sheet of character c is empty
EveryCellEmpty(d, c) ==
    \A j \in 1..Len(d.Sheets[c]) : d.Sheets[c][j].Aliases = <<>>

SelfAliases(d, c) ==
    {<<c, d.Sheets[c][j].MoveName>> : j \in 1..Len(d.Sheets[c])}

\* C29: no import that has succeeded has stored a SimpleAlias whose Alias is
\* the empty string; and the import of a sheet on which two moves of a
\* character both have an empty Aliases cell succeeds and stores the
\* self-aliases of the moves and no other SimpleAlias
C29_NoEmptyAlias ==
    \A i \in Importers :
        imp[i].pc = "done" =>
            /\ imp[i].ok =>
                  \A k \in 1..Len(db.SimpleAlias) : db.SimpleAlias[k].Alias # <<>>
            /\ (Len(doc.Sheets[CA]) = 2 /\ EveryCellEmpty(doc, CA)) =>
                  /\ imp[i].ok
                  /\ Range(SimpleAliasKeys(db.SimpleAlias)) = SelfAliases(doc, CA)

---------------------------------------------------------------------------
(* C30. After a /download the embed cache holds what the catalog holds.     *)

EmbedMoveInputs == {<<"X">>, <<"Z", "Z">>, <<"Y", "Y">>}

NoImporter == \A i \in Importers : imp[i].pc = "idle"
NoResolver == \A r \in Resolvers : fd[r].pc = "idle"

\* the maintainers' /download interactions, which may overlap, their edits of
\* the sheet, and /fd interactions while no /download is in progress
InitEmbeds == doc = LiveGood2 /\ InitCommon

NextEmbeds ==
    \/ \E i \in Importers : NoResolver /\ StartDownload(i)
    \/ \E i \in Importers : ImportStep(i)
    \/ EditSheet
    \/ \E r \in FirstResolver : FdStep(r)
    \/ \E r \in FirstResolver, m \in EmbedMoveInputs : AllIdle /\ StartFd(r, CA, m)

SpecEmbeds == InitEmbeds /\ [][NextEmbeds]_vars

\* every cached embed is the one built from a Character row and one of its
\* Move rows as the tables hold them
CacheAgrees(cache, d) ==
    \A e \in cache :
        \E c \in 1..Len(d.Character), m \in 1..Len(d.Move) :
            /\ d.Move[m].Character = d.Character[c].Name
            /\ e = NewEmbed(d.Character[c].PrettyName, d.Move[m])

\* the step is the buildEmbed of a /fd that began after the last /download,
\* which succeeded
ReturnsEmbedAfterDownload(r) ==
    /\ fd[r].pc = "fetchMove" /\ fd'[r].pc = "done" /\ fd'[r].outcome = "move"
    /\ NoImporter /\ nDownloads > 0 /\ last.ok /\ fd[r].dl = nDownloads

\* the step ends a /download whose import failed, the only one in progress
FailedDownloadEnds(i) ==
    /\ imp[i].pc = "done" /\ ~imp[i].ok /\ ~imp[i].startup /\ imp'[i].pc = "idle"
    /\ \A j \in Importers \ {i} : imp[j].pc = "idle"

\* C30: the embed buildEmbed returns to a /fd after a /download that
\* succeeded is the one built from the Character and Move rows the tables
\* hold, and when a /download that failed ends every cached embed is still
\* the one built from the rows the tables hold
C30_EmbedsFollowCatalog ==
    [][/\ \A r \in Resolvers :
             ReturnsEmbedAfterDownload(r) =>
                fd'[r].embed =
                   << NewEmbed(PrettyNameOf(db.Character, fd[r].character),
                               FetchMoveRows(db.Move, fd[r].character,
                                             fd[r].canonical)[1]) >>
       /\ \A i \in Importers :
             FailedDownloadEnds(i) => CacheAgrees(embedCache', db')]_vars

=============================================================================
